---------------------------- MODULE Spec2Model ----------------------------
(***************************************************************************)
(* AURA command router (AuraV2Bridge) with its confirmation sub-protocol,  *)
(* the multi-task handler and the goal router's dispatch.                  *)
(*                                                                         *)
(* Utterances are TLA+ strings; the text operations of the source          *)
(* (strip, lower, substring test, regular-expression split) are computed   *)
(* character by character.  Collaborators whose result is produced by an   *)
(* external service (completion service, function executor, mail           *)
(* transport) are nondeterministic choices over the outcomes their         *)
(* callers distinguish.                                                    *)
(***************************************************************************)
EXTENDS Integers, Sequences, FiniteSets, TLC

(***************************************************************************)
(* Bounds                                                                  *)
(***************************************************************************)
\* number of process() calls of one behaviour that reach the intent classifier
MaxRouted == 1
\* number of process() calls of one behaviour that run a compound command as a batch
MaxBatches == 1
\* number of routed calls of a behaviour that sends no compound command
MaxSingle == 2

(***************************************************************************)
(* Text primitives                                                         *)
(***************************************************************************)
UpperAlpha == "ABCDEFGHIJKLMNOPQRSTUVWXYZ"
LowerAlpha == "abcdefghijklmnopqrstuvwxyz"

\* the i-th character of s, as a one-character string
Char(s, i) == SubSeq(s, i, i)

\* str.lower() on one character
LowerChar(c) ==
    IF \E i \in 1..Len(UpperAlpha) : Char(UpperAlpha, i) = c
    THEN Char(LowerAlpha, CHOOSE i \in 1..Len(UpperAlpha) : Char(UpperAlpha, i) = c)
    ELSE c

\* str.lower()
RECURSIVE Lower(_)
Lower(s) == IF Len(s) = 0 THEN "" ELSE LowerChar(Char(s, 1)) \o Lower(SubSeq(s, 2, Len(s)))

\* characters matched by \s and removed by str.strip()
IsSpace(c) == c = " "

\* str.strip()
RECURSIVE Strip(_)
Strip(s) ==
    IF Len(s) = 0 THEN ""
    ELSE IF IsSpace(Char(s, 1)) THEN Strip(SubSeq(s, 2, Len(s)))
    ELSE IF IsSpace(Char(s, Len(s))) THEN Strip(SubSeq(s, 1, Len(s) - 1))
    ELSE s

\* Python's "w in s" on strings
Contains(s, w) ==
    \E i \in 1..(Len(s) - Len(w) + 1) : SubSeq(s, i, i + Len(w) - 1) = w

\* str.startswith
StartsWith(text, piece) ==
    Len(text) >= Len(piece) /\ SubSeq(text, 1, Len(piece)) = piece

\* str.endswith
EndsWith(text, piece) ==
    Len(text) >= Len(piece) /\ SubSeq(text, Len(text) - Len(piece) + 1, Len(text)) = piece

\* any(w in s for w in words)
AnyIn(words, s) == \E k \in 1..Len(words) : Contains(s, words[k])

\* s in words  (list membership)
MemberOf(words, s) == \E k \in 1..Len(words) : words[k] = s


(***************************************************************************)
(* Values                                                                  *)
(***************************************************************************)
\* confidences are in hundredths: 0.70 is 70
HighBar == 70
LowBar == 50

\* capabilities of the catalog that the model distinguishes
Tools == {"draft_email", "set_system_volume"}

\* a clamp that only caps the confidence
ClampMutant(c) == IF c > 100 THEN 100 ELSE c

\* RouteResult.__post_init__: confidence is clamped to [0.0, 1.0]
Clamp(c) == IF c < 0 THEN 0 ELSE IF c > 100 THEN 100 ELSE c

\* RouteResult; function "" is None, args_ok says that args is a mapping
RouteResult(c, f, conv, ncg, argsOk) ==
    [confidence |-> Clamp(c), function |-> f, is_conversation |-> conv,
     needs_code_generation |-> ncg, args_ok |-> argsOk]

\* the three shapes IntentRouter.classify builds
ClassifyResults ==
    {RouteResult(95, "", TRUE, FALSE, TRUE), RouteResult(0, "", FALSE, TRUE, TRUE)}
    \cup {RouteResult(90, f, FALSE, FALSE, a) : f \in Tools, a \in BOOLEAN}

\* every RouteResult the router is checked against: those of classify and
\* further values of the dataclass (other confidences, several flags set)
RouteResults ==
    ClassifyResults
    \cup {RouteResult(c, "set_system_volume", FALSE, FALSE, TRUE) : c \in {49, 50, 69, 70}}
    \cup {RouteResult(c, "draft_email", FALSE, FALSE, TRUE) : c \in {69, 70}}
    \cup {RouteResult(90, "set_system_volume", TRUE, TRUE, TRUE)}

NoPending == [type |-> "none", data |-> 0]

ZeroStats ==
    [local_commands |-> 0, multi_task |-> 0, goal_driven |-> 0, gemini_intent |-> 0,
     gemini_full |-> 0, gemini_chat |-> 0, tokens_saved |-> 0, capabilities_learned |-> 0]

max_history == 20

\* the triple process returns; raised marks a call ended by an exception
Ret(resp, ok, used) == [response |-> resp, success |-> ok, used_gemini |-> used, raised |-> FALSE]
Raised(what) == [response |-> what, success |-> FALSE, used_gemini |-> FALSE, raised |-> TRUE]
NoRet == [response |-> "-", success |-> FALSE, used_gemini |-> FALSE, raised |-> FALSE]

\* one collaborator invocation: what was called, with what (the capability
\* name, the returned signal), whether it succeeded, and from which tier
Call(op, arg, ok, site) == [op |-> op, arg |-> arg, ok |-> ok, site |-> site]

\* b is the router object; Log appends an invocation to the step's trace
Log(b, op, arg, ok) == [b EXCEPT !.calls = Append(@, Call(op, arg, ok, ""))]

Bump(b, counter, n) == [b EXCEPT !.stats[counter] = @ + n]

Out(b, ret) == [b |-> b, ret |-> ret]

(***************************************************************************)
(* Email assistant                                                         *)
(***************************************************************************)
\* EmailAssistant.generate_draft: a new draft, a reported failure, or an error
DraftOutcomes == {"ok", "fail", "raise"}

\* EmailAssistant.execute_email_action(email_data, action) appends to the
\* record of performed email actions
MailAction(b, draft, action, via, ok) ==
    [b EXCEPT !.mail = Append(@, [draft |-> draft, action |-> action, via |-> via, ok |-> ok])]

\* email_assistant.draft_email (the capability run by the function
\* executor): generate the draft and perform the clipboard action at once
DraftEmailDirect(b) ==
    { IF d = "ok"
      THEN [b |-> MailAction([b EXCEPT !.drafts = @ + 1], b.drafts + 1, "clipboard", "executor", TRUE),
            success |-> TRUE]
      ELSE [b |-> b, success |-> FALSE] : d \in {"ok", "fail"} }


(***************************************************************************)
(* Collaborators of the router                                             *)
(***************************************************************************)
\* FunctionExecutor.execute(function_name, args): runs the capability and
\* reports success or failure
ExecutorExecute(b, fn) ==
    IF fn = "draft_email" THEN DraftEmailDirect(b)
    ELSE {[b |-> b, success |-> ok] : ok \in BOOLEAN}

\* the ai_client property: the client is loaded on first use and kept; a
\* failed load leaves it unset and is retried by the next use
AiClient(b) == IF b.ai_client THEN {b} ELSE {[b EXCEPT !.ai_client = TRUE], b}

\* the goals extract_goal can return, with the planner's and the plan
\* executor's outcome for them; "error" is an exception inside route
GoalCases ==
    {[type |-> "CONVERSATION", plan |-> FALSE, done |-> ok, error |-> FALSE] : ok \in BOOLEAN}
    \cup {[type |-> "UNKNOWN", plan |-> FALSE, done |-> FALSE, error |-> FALSE]}
    \cup {[type |-> "OPEN_APP", plan |-> FALSE, done |-> FALSE, error |-> FALSE]}
    \cup {[type |-> "OPEN_APP", plan |-> TRUE, done |-> ok, error |-> FALSE] : ok \in BOOLEAN}
    \cup {[type |-> "OPEN_APP", plan |-> TRUE, done |-> FALSE, error |-> TRUE]}

\* GoalRouter.route: (response, success) for an extracted goal
GoalRouterRoute(g) ==
    IF g.type = "CONVERSATION"
    THEN (IF g.done THEN [response |-> "chat reply", success |-> TRUE]
          ELSE [response |-> "I'm not sure how to respond to that.", success |-> FALSE])
    ELSE IF g.type = "UNKNOWN"
    THEN [response |-> "NEEDS_CODE_GENERATION", success |-> FALSE]
    ELSE IF ~g.plan
    THEN [response |-> "NEEDS_FUNCTION_EXECUTOR", success |-> FALSE]
    ELSE IF g.done
    THEN [response |-> "Done: plan", success |-> TRUE]
    ELSE [response |-> "Attempted: plan", success |-> FALSE]

(***************************************************************************)
(* AuraV2Bridge                                                            *)
(***************************************************************************)
affirmative == <<"yes", "send", "confirm", "send it", "okay", "ok", "go ahead">>
negative == <<"no", "cancel", "don't", "discard", "stop">>

\* the outcomes of executing the prepared email action on confirmation:
\* no SMTP configuration (clipboard), SMTP sends, SMTP fails and the
\* clipboard is used instead, an error before or inside the action
MailOutcomes == {"clipboard", "smtp_ok", "smtp_fail", "raise_before", "raise_in"}

PendingMutant(slot) == FALSE

\* "if self.pending_confirmation": the slot holds a confirmation
Pending(slot) == slot # NoPending

ClearPendingMutant(b) == b

\* "self.pending_confirmation = None"
ClearPending(b) == [b EXCEPT !.pending = NoPending]

\* the affirmative test of _handle_confirmation
IsAffirmative(cmd_lower) == AnyIn(affirmative, cmd_lower)

IsNegativeMutant(cmd_lower) == TRUE

\* the negative test of _handle_confirmation
IsNegative(cmd_lower) == AnyIn(negative, cmd_lower)

\* _handle_confirmation, affirmative branch for a pending email
ConfirmEmail(b, m) ==
    LET d == b.pending.data
        cleared(x) == ClearPending(x)
    IN  CASE m = "clipboard" ->
               Out(cleared(MailAction(Log(b, "email_action", "clipboard", TRUE),
                                      d, "clipboard", "confirm", TRUE)),
                   Ret("Email copied to clipboard!", TRUE, FALSE))
          [] m = "smtp_ok" ->
               Out(cleared(MailAction(Log(b, "email_action", "smtp", TRUE),
                                      d, "smtp", "confirm", TRUE)),
                   Ret("Email sent successfully!", TRUE, FALSE))
          [] m = "smtp_fail" ->
               Out(cleared(MailAction(Log(MailAction(Log(b, "email_action", "smtp", FALSE),
                                                     d, "smtp", "confirm", FALSE),
                                          "email_action", "clipboard", TRUE),
                                      d, "clipboard", "confirm", TRUE)),
                   Ret("SMTP sending failed. Copied to clipboard instead.", TRUE, FALSE))
          [] m = "raise_before" ->
               Out(cleared(b), Ret("Error executing action", FALSE, FALSE))
          [] OTHER ->
               Out(cleared(MailAction(Log(b, "email_action", "clipboard", FALSE),
                                      d, "clipboard", "confirm", FALSE)),
                   Ret("Error executing action", FALSE, FALSE))

\* _handle_confirmation
HandleConfirmation(b0, command) ==
    LET cmd_lower == Lower(command)
        b == Log(b0, "confirm", "", TRUE)
    IN  IF IsAffirmative(cmd_lower)
        THEN (IF b.pending.type = "email"
              THEN {ConfirmEmail(b, m) : m \in MailOutcomes}
              ELSE {Out(b, Ret("None", FALSE, FALSE))})
        ELSE IF IsNegative(cmd_lower)
        THEN {Out(ClearPending(b), Ret("Cancelled. Draft discarded.", TRUE, FALSE))}
        ELSE {Out(b, Ret("Please say 'Send' to confirm or 'Cancel' to discard.", FALSE, FALSE))}

\* the slot is staged before the outcome of generate_draft is looked at
InterceptEmailDraftMutant(b0, rr) ==
    IF ~rr.args_ok
    THEN {Out(b0, Ret("Error drafting email", FALSE, FALSE))}
    ELSE { LET b == Log(b0, "generate_draft", "", d = "ok")
               staged == [b EXCEPT !.drafts = @ + 1,
                                   !.pending = [type |-> "email", data |-> b.drafts + 1]]
           IN  CASE d = "ok" -> Out(staged, Ret("Draft ready", TRUE, FALSE))
                 [] d = "fail" -> Out(staged, Ret("Failed to draft email", FALSE, FALSE))
                 [] OTHER -> Out(b, Ret("Error drafting email", FALSE, FALSE))
           : d \in DraftOutcomes }

\* _intercept_email_draft
InterceptEmailDraft(b0, rr) ==
    IF ~rr.args_ok
    THEN {Out(b0, Ret("Error drafting email", FALSE, FALSE))}
    ELSE { LET b == Log(b0, "generate_draft", "", d = "ok")
           IN  CASE d = "ok" ->
                      Out([b EXCEPT !.drafts = @ + 1,
                                    !.pending = [type |-> "email", data |-> b.drafts + 1]],
                          Ret("Draft ready", TRUE, FALSE))
                 [] d = "fail" -> Out(b, Ret("Failed to draft email", FALSE, FALSE))
                 [] OTHER -> Out(b, Ret("Error drafting email", FALSE, FALSE))
           : d \in DraftOutcomes }

\* _execute_local; site names the calling tier
ExecuteLocal(b0, rr, site) ==
    { LET b == [e.b EXCEPT !.calls = Append(@, Call("execute", rr.function, e.success, site))]
      IN  IF rr.args_ok
          THEN Out(b, Ret(IF e.success THEN "confirmation(ok)" ELSE "confirmation(failed)",
                          e.success, FALSE))
          ELSE Out(b, Raised("AttributeError"))
      : e \in ExecutorExecute(b0, rr.function) }

\* _handle_gemini: code generation and execution of the generated code
HandleGemini(b0) ==
    UNION { IF ~b1.ai_client
            THEN {Out(b1, Ret("I'm having trouble connecting to my AI systems.", FALSE, FALSE))}
            ELSE {Out(Log(b1, "codegen", "", TRUE), Ret("generated result", TRUE, TRUE)),
                  Out(Bump(Log(b1, "codegen", "", TRUE), "capabilities_learned", 1),
                      Ret("generated result", TRUE, TRUE)),
                  Out(Log(b1, "codegen", "", FALSE), Ret("failure", FALSE, TRUE))}
            : b1 \in AiClient(b0) }

\* the conversation history after appending msg and keeping max_history entries
Remember(h, msg) ==
    LET h1 == Append(h, msg)
    IN  IF Len(h1) > max_history THEN SubSeq(h1, Len(h1) - max_history + 1, Len(h1)) ELSE h1

\* _handle_conversation
HandleConversation(b0) ==
    UNION { IF ~b1.ai_client
            THEN {Out(b1, Ret("connectivity difficulties", FALSE, FALSE))}
            ELSE LET b2 == [b1 EXCEPT !.history = Remember(@, "user")]
                 IN  {Out(Log([b2 EXCEPT !.history = Append(@, "assistant")],
                              "conversation", "", TRUE),
                          Ret("butler reply", TRUE, TRUE)),
                      Out(Log(b2, "conversation", "", FALSE),
                          Ret("momentary difficulty", FALSE, TRUE))}
            : b1 \in AiClient(b0) }


\* process, fallback to code generation (the last tier)
CodeGenTier(b) == HandleGemini(Bump(b, "gemini_full", 1))

\* process, lower-confidence function match
LowTier(b, rr) ==
    IF rr.function # "" /\ rr.confidence >= LowBar
    THEN UNION { IF o.ret.raised THEN {o}
                 ELSE IF o.ret.success
                 THEN {Out(Bump(Bump(o.b, "local_commands", 1), "tokens_saved", 500), o.ret)}
                 ELSE CodeGenTier(o.b)
                 : o \in ExecuteLocal(b, rr, "low") }
    ELSE CodeGenTier(b)

GoalTierMutant(b, rr) ==
    IF b.goal_router
    THEN UNION { LET r == GoalRouterRoute(g)
                     b1 == Log(b, "goal_router", r.response, r.success)
                 IN  IF r.success
                     THEN {Out(Bump(Bump(b1, "goal_driven", 1), "tokens_saved", 300),
                               Ret(r.response, TRUE, FALSE))}
                     ELSE LowTier(b1, rr)
                 : g \in {x \in GoalCases : ~x.error} }
    ELSE LowTier(b, rr)

\* process, goal-driven routing
GoalTier(b, rr) ==
    IF b.goal_router
    THEN UNION { IF g.error
                 THEN LowTier(Log(b, "goal_router", "error", FALSE), rr)
                 ELSE LET r == GoalRouterRoute(g)
                          b1 == Log(b, "goal_router", r.response, r.success)
                      IN  IF r.success
                          THEN {Out(Bump(Bump(b1, "goal_driven", 1), "tokens_saved", 300),
                                    Ret(r.response, TRUE, FALSE))}
                          ELSE IF r.response = "NEEDS_FUNCTION_EXECUTOR"
                          THEN LowTier(b1, rr)
                          ELSE IF r.response = "NEEDS_CODE_GENERATION"
                          THEN HandleGemini(Bump(b1, "gemini_full", 1))
                          ELSE LowTier(b1, rr)
                 : g \in GoalCases }
    ELSE LowTier(b, rr)

HighTierMutant(b, rr) ==
    IF rr.function # "" /\ rr.confidence >= HighBar
    THEN IF rr.function = "draft_email"
         THEN InterceptEmailDraft(b, rr)
         ELSE UNION { IF o.ret.raised THEN {o} ELSE GoalTier(o.b, rr)
                      : o \in ExecuteLocal(b, rr, "high") }
    ELSE GoalTier(b, rr)

\* process, high-confidence function match with the email interception
HighTier(b, rr) ==
    IF rr.function # "" /\ rr.confidence >= HighBar
    THEN IF rr.function = "draft_email"
         THEN InterceptEmailDraft(b, rr)
         ELSE UNION { IF o.ret.raised THEN {o}
                      ELSE IF o.ret.success
                      THEN {Out(Bump(Bump(o.b, "local_commands", 1), "tokens_saved", 500), o.ret)}
                      ELSE GoalTier(o.b, rr)
                      : o \in ExecuteLocal(b, rr, "high") }
    ELSE GoalTier(b, rr)

ProcessRouteMutant(b0, rr) ==
    LET b == Log(b0, "classify", "", TRUE)
    IN  IF rr.is_conversation /\ rr.function = ""
        THEN HandleConversation(Bump(b, "gemini_chat", 1))
        ELSE HighTier(b, rr)

\* process from the classification on (STEP 1 and the routes after it)
ProcessRoute(b0, rr) ==
    LET b == Log(b0, "classify", "", TRUE)
    IN  IF rr.is_conversation
        THEN HandleConversation(Bump(b, "gemini_chat", 1))
        ELSE HighTier(b, rr)


(***************************************************************************)
(* MultiTaskHandler                                                        *)
(***************************************************************************)
\* the separator patterns; "S+" is \s+, "S*" is \s*, the rest is literal
SEPARATORS ==
    << <<"S+", "and", "S+", "also", "S+">>,
       <<"S+", "and", "S+", "then", "S+">>,
       <<"S+", "then", "S+">>,
       <<"S+", "and", "S+">>,
       <<"S+", "also", "S+">>,
       <<",", "S*", "and", "S+">>,
       <<",", "S*", "then", "S+">>,
       <<",", "S+">> >>

DEPENDENCY_KEYWORDS == <<"then", "after that", "next", "afterwards", "following that">>

\* the first position at or after i that holds no whitespace
RECURSIVE SkipSpaces(_, _)
SkipSpaces(s, i) ==
    IF i <= Len(s) /\ IsSpace(Char(s, i)) THEN SkipSpaces(s, i + 1) ELSE i

\* the position after a match of pat[k..] that starts at i, 0 when there is none
RECURSIVE MatchAt(_, _, _, _)
MatchAt(s, i, pat, k) ==
    IF k > Len(pat) THEN i
    ELSE LET e == pat[k]
         IN  IF e = "S+"
             THEN (IF SkipSpaces(s, i) = i THEN 0 ELSE MatchAt(s, SkipSpaces(s, i), pat, k + 1))
             ELSE IF e = "S*"
             THEN MatchAt(s, SkipSpaces(s, i), pat, k + 1)
             ELSE IF i + Len(e) - 1 <= Len(s) /\ SubSeq(s, i, i + Len(e) - 1) = e
             THEN MatchAt(s, i + Len(e), pat, k + 1)
             ELSE 0

\* re.search(pattern, s)
ReSearch(pat, s) == \E i \in 1..Len(s) : MatchAt(s, i, pat, 1) # 0

\* re.split(pattern, s, flags=re.IGNORECASE): low is s lower-cased, start
\* is where the current piece begins and i the position being tried
RECURSIVE ReSplitFrom(_, _, _, _, _)
ReSplitFrom(pat, s, low, start, i) ==
    IF i > Len(s) THEN <<SubSeq(s, start, Len(s))>>
    ELSE LET e == MatchAt(low, i, pat, 1)
         IN  IF e # 0
             THEN <<SubSeq(s, start, i - 1)>> \o ReSplitFrom(pat, s, low, e, e)
             ELSE ReSplitFrom(pat, s, low, start, i + 1)

ReSplit(pat, s) == ReSplitFrom(pat, s, Lower(s), 1, 1)

\* is_multi_task
IsMultiTask(command) ==
    \E k \in 1..Len(SEPARATORS) : ReSearch(SEPARATORS[k], Lower(command))

\* split_tasks, the loop over the separators: every part is split by
\* the k-th pattern and the pieces replace it
RECURSIVE SplitEach(_, _)
SplitEach(parts, pat) ==
    IF Len(parts) = 0 THEN <<>>
    ELSE ReSplit(pat, Head(parts)) \o SplitEach(Tail(parts), pat)

RECURSIVE SplitBy(_, _)
SplitBy(parts, k) ==
    IF k > Len(SEPARATORS) THEN parts ELSE SplitBy(SplitEach(parts, SEPARATORS[k]), k + 1)

\* split_tasks, "clean up parts": stripped and non-empty
RECURSIVE CleanParts(_)
CleanParts(parts) ==
    IF Len(parts) = 0 THEN <<>>
    ELSE IF Strip(Head(parts)) = "" THEN CleanParts(Tail(parts))
    ELSE <<Strip(Head(parts))>> \o CleanParts(Tail(parts))

SplitParts(command) == CleanParts(SplitBy(<<command>>, 1))

\* split_tasks, the nearest earlier part that opens something (0-based), -1 if none
RECURSIVE OpenerBefore(_, _)
OpenerBefore(parts, j) ==
    IF j < 0 THEN -1
    ELSE IF AnyIn(<<"open", "launch", "start">>, Lower(parts[j + 1])) THEN j
    ELSE OpenerBefore(parts, j - 1)

\* the opener is looked for from the first part on, not from the nearest
DependsOnMutant(parts, original_command, i) ==
    LET seqDeps == IF AnyIn(DEPENDENCY_KEYWORDS, original_command) /\ i > 0
                   THEN <<i - 1>> ELSE <<>>
        openers == {m \in 0..(i - 1) : AnyIn(<<"open", "launch", "start">>, Lower(parts[m + 1]))}
        j == IF AnyIn(<<"search", "type", "click", "find">>, Lower(parts[i + 1])) /\ openers # {}
             THEN CHOOSE m \in openers : \A k \in openers : m <= k ELSE -1
    IN  IF j >= 0 /\ ~(\E n \in 1..Len(seqDeps) : seqDeps[n] = j)
        THEN Append(seqDeps, j) ELSE seqDeps

\* the sequential dependency is the part's own index, not the previous one
DependsOnSelfMutant(parts, original_command, i) ==
    LET seqDeps == IF AnyIn(DEPENDENCY_KEYWORDS, original_command) /\ i > 0
                   THEN <<i>> ELSE <<>>
        j == IF AnyIn(<<"search", "type", "click", "find">>, Lower(parts[i + 1]))
             THEN OpenerBefore(parts, i - 1) ELSE -1
    IN  IF j >= 0 /\ ~(\E n \in 1..Len(seqDeps) : seqDeps[n] = j)
        THEN Append(seqDeps, j) ELSE seqDeps

\* split_tasks, the dependencies of the part with 0-based index i
DependsOn(parts, original_command, i) ==
    LET seqDeps == IF AnyIn(DEPENDENCY_KEYWORDS, original_command) /\ i > 0
                   THEN <<i - 1>> ELSE <<>>
        j == IF AnyIn(<<"search", "type", "click", "find">>, Lower(parts[i + 1]))
             THEN OpenerBefore(parts, i - 1) ELSE -1
    IN  IF j >= 0 /\ ~(\E n \in 1..Len(seqDeps) : seqDeps[n] = j)
        THEN Append(seqDeps, j) ELSE seqDeps

\* split_tasks
SplitTasks(command) ==
    LET parts == SplitParts(command)
    IN  [n \in 1..Len(parts) |->
            [command |-> parts[n], index |-> n - 1,
             depends_on |-> DependsOn(parts, Lower(command), n - 1),
             executed |-> FALSE, success |-> FALSE, result |-> ""]]


\* _execute_single_task: (response, success) of one sub-command, or the
\* exception that leaves it
ExecuteSingleTask(b0, rr) ==
    LET b == Log(b0, "classify", "task", TRUE)
        gemini(x) == HandleGemini(x)
        low(x) == IF rr.function # "" /\ rr.confidence >= LowBar
                  THEN UNION { IF o.ret.raised \/ o.ret.success THEN {o} ELSE gemini(o.b)
                               : o \in ExecuteLocal(x, rr, "task_low") }
                  ELSE gemini(x)
        goal(x) == IF ~x.goal_router
                   THEN low(x) \cup {Out(x, Raised("goal router"))}
                   ELSE UNION { IF g.error
                                THEN low(Log(x, "goal_router", "error", FALSE))
                                ELSE LET r == GoalRouterRoute(g)
                                         x1 == Log(x, "goal_router", r.response, r.success)
                                     IN  IF r.success
                                         THEN {Out(x1, Ret(r.response, TRUE, FALSE))}
                                         ELSE low(x1)
                                : g \in GoalCases }
    IN  IF rr.function # "" /\ rr.confidence >= HighBar
        THEN UNION { IF o.ret.raised \/ o.ret.success THEN {o} ELSE goal(o.b)
                     : o \in ExecuteLocal(b, rr, "task_high") }
        ELSE goal(b)

\* a dependency counts as met once it was visited
DepsMetMutant(ts, task) ==
    \A n \in 1..Len(task.depends_on) : ts[task.depends_on[n] + 1].executed

\* a skipped dependency counts as met
DepsMetSkipMutant(ts, task) ==
    \A n \in 1..Len(task.depends_on) :
        LET d == ts[task.depends_on[n] + 1]
        IN  d.executed /\ (d.success \/ d.result = "Skipped (dependency failed): " \o d.command)

\* execute_tasks, the dependency check of one task
DepsMet(ts, task) ==
    \A n \in 1..Len(task.depends_on) :
        ts[task.depends_on[n] + 1].executed /\ ts[task.depends_on[n] + 1].success

\* "\n".join([r for r in results if r])
RECURSIVE JoinResults(_, _)
JoinResults(ts, n) ==
    IF n > Len(ts) THEN ""
    ELSE LET rest == JoinResults(ts, n + 1)
         IN  IF ts[n].result = "" THEN rest
             ELSE IF rest = "" THEN ts[n].result
             ELSE ts[n].result \o "\n" \o rest

\* the batch succeeds when some task did, and reports the last result only
BatchResultMutant(ts) ==
    [response |-> ts[Len(ts)].result,
     success |-> \E n \in 1..Len(ts) : ts[n].success,
     used_gemini |-> \E n \in 1..Len(ts) :
                        ~ts[n].success \/ Contains(Lower(ts[n].result), "gemini"),
     raised |-> FALSE]

\* MultiTaskHandler.process, the result of a batch whose tasks have all been visited
BatchResult(ts) ==
    [response |-> JoinResults(ts, 1),
     success |-> \A n \in 1..Len(ts) : ts[n].success,
     used_gemini |-> \E n \in 1..Len(ts) :
                        ~ts[n].success \/ Contains(Lower(ts[n].result), "gemini"),
     raised |-> FALSE]


(***************************************************************************)
(* PlanExecutor                                                            *)
(***************************************************************************)
\* longest plan replayed
MaxSteps == 3

\* the kinds of ActionStep that _execute_step tells apart: a known type
\* whose primitive returns, a known type whose primitive raises, and an
\* unknown type
StepKinds == {"KEY", "KEY!", "BOGUS"}

\* the step types _execute_step knows
StepTypes == {"KEY", "HOTKEY", "TYPE", "WAIT", "CLICK", "SCROLL"}

\* _execute_step: True unless the type is unknown or the primitive raised
ExecuteStepOk(step) == step \in StepTypes

\* the plans handed to execute (HumanActionPlan.steps)
RECURSIVE PlansOfLen(_)
PlansOfLen(n) ==
    IF n = 0 THEN {<<>>}
    ELSE {Append(p, k) : p \in PlansOfLen(n - 1), k \in StepKinds}

Plans == UNION {PlansOfLen(n) : n \in 0..MaxSteps}

\* _executor_instance = None: get_plan_executor has not built the singleton
NoExecutor == [built |-> FALSE, advanced_control |-> FALSE, interrupt_flag |-> FALSE]

\* no execute call is in progress and none has returned
NoRun ==
    [pc |-> "none", steps |-> <<>>, i |-> 0, executed |-> <<>>, ret |-> FALSE,
     interrupted |-> FALSE, late |-> FALSE, requested |-> FALSE]

(***************************************************************************)
(* Context store, goals and strategies                                     *)
(***************************************************************************)
\* ContextState(): the defaults of the dataclass; last_updated counts the
\* updates (the source stores the time of the update)
DefaultContextState ==
    [last_media_app |-> "spotify", last_video_app |-> "youtube",
     last_email_source |-> "gmail", last_browser |-> "chrome",
     preferred_music_app |-> "spotify", preferred_video_app |-> "youtube",
     preferred_streaming_app |-> "netflix", preferred_email_app |-> "gmail",
     recent_commands |-> <<>>, last_updated |-> 0]

\* _context_engine = None: get_context_engine has not built the singleton
NoContext == [built |-> FALSE, state |-> DefaultContextState]

\* ~/.aura/context.json does not exist
NoFile == [exists |-> FALSE, data |-> DefaultContextState, extra |-> FALSE, missing |-> {}]

\* context files left by earlier sessions
ContextFiles ==
    {[DefaultContextState EXCEPT
         !.preferred_music_app = m, !.last_media_app = m,
         !.preferred_email_app = e, !.last_email_source = e,
         !.last_updated = 1] :
       m \in {"spotify", "youtube"}, e \in {"gmail", "outlook"}}

\* ContextEngine._load_context: ContextState(**data) raises TypeError for a
\* key that is no field, the handler logs it and the defaults are returned;
\* a field without a key in the file gets its default
LoadContext(file) ==
    IF ~file.exists \/ file.extra
    THEN DefaultContextState
    ELSE [f \in DOMAIN DefaultContextState |->
             IF f \in file.missing THEN DefaultContextState[f] ELSE file.data[f]]

\* ContextEngine.save: the state is written, or the write fails and the
\* failure is only logged
Save(state, file) ==
    {[exists |-> TRUE, data |-> state, extra |-> FALSE, missing |-> {}], file}

\* ContextEngine.get_preference
GetPreference(state, category) ==
    CASE category = "music" -> state.preferred_music_app
      [] category = "video" -> state.preferred_video_app
      [] category = "streaming" -> state.preferred_streaming_app
      [] category = "email" -> state.preferred_email_app
      [] category = "browser" -> state.last_browser
      [] OTHER -> ""

\* ContextEngine.update_preference, up to the save
UpdatePreference(state, category, app_name) ==
    LET s == CASE category = "music" ->
                      [state EXCEPT !.preferred_music_app = app_name,
                                    !.last_media_app = app_name]
               [] category = "video" ->
                      [state EXCEPT !.preferred_video_app = app_name,
                                    !.last_video_app = app_name]
               [] category = "email" ->
                      [state EXCEPT !.preferred_email_app = app_name,
                                    !.last_email_source = app_name]
               [] OTHER -> state
    IN  [s EXCEPT !.last_updated = @ + 1]

\* the number of entries add_recent_command keeps
MaxRecent == 20

\* the list is cut only once it holds more than MaxRecent + 1 entries
AddRecentCommandMutant(state, cmd) ==
    LET r == Append(state.recent_commands, cmd)
    IN  [state EXCEPT !.recent_commands =
             IF Len(r) > MaxRecent + 1 THEN SubSeq(r, Len(r) - MaxRecent + 1, Len(r)) ELSE r]

\* ContextState.add_recent_command
AddRecentCommand(state, cmd) ==
    LET r == Append(state.recent_commands, cmd)
    IN  [state EXCEPT !.recent_commands =
             IF Len(r) > MaxRecent THEN SubSeq(r, Len(r) - MaxRecent + 1, Len(r)) ELSE r]

\* Goal; modifiers holds the keys the strategies read ("" is a missing key)
Goal(type, content, preference, action, control, mtype, level) ==
    [type |-> type, content |-> content, preference |-> preference,
     modifiers |-> [action |-> action, control |-> control, type |-> mtype,
                    level |-> level]]

\* the goals extract_goal hands to route
Goals ==
    {Goal("PLAY_MEDIA", "jazz", p, "", "", t, "") :
        p \in {"", "Spotify", "youtube", "yt", "netflix", "vlc"}, t \in {"", "video"}}
    \cup {Goal("PLAY_MEDIA", "", "spotify", "", "", "", "")}
    \cup {Goal("CONTROL_MEDIA", "", "", a, "", "", "") : a \in {"pause", "Next", "rewind", ""}}
    \cup {Goal(t, "", p, "", "", "", "") :
            t \in {"CHECK_EMAIL", "SEND_EMAIL"}, p \in {"", "Google", "outlook"}}
    \cup {Goal("SYSTEM_CONTROL", "", "", a, "volume", "", "") : a \in {"mute", "up", "down"}}
    \cup {Goal("SYSTEM_CONTROL", "", "", "set", c, "", "50") :
            c \in {"volume", "brightness", "wifi"}}
    \cup {Goal("OPEN_APP", "notepad", "", "", "", "", ""),
          Goal("OPEN_APP", "", "vlc", "", "", "", ""),
          Goal("CLOSE_APP", "notepad", "", "", "", "", ""),
          Goal("WEB_SEARCH", "red pandas", "", "", "", "", ""),
          Goal("OPEN_WEBSITE", "example.com", "", "", "", "", ""),
          Goal("OPEN_WEBSITE", "http://example.com", "", "", "", "", ""),
          Goal("SEND_MESSAGE", "hi", "whatsapp", "", "", "", ""),
          Goal("CONVERSATION", "hello", "", "", "", "", ""),
          Goal("UNKNOWN", "", "", "", "", "", "")}

\* MediaKeyStrategy.MEDIA_ACTIONS (its keys)
MEDIA_ACTIONS ==
    {"play", "pause", "play_pause", "next", "previous", "prev", "stop", "mute"}

\* StrategyPlanner.strategies, in registration order
STRATEGIES ==
    <<"MediaKeyStrategy", "SpotifyStrategy", "YouTubeStrategy", "NetflixStrategy",
      "GmailStrategy", "VolumeStrategy", "BrightnessStrategy", "OpenAppStrategy",
      "CloseAppStrategy", "WebSearchStrategy", "OpenWebsiteStrategy">>

\* Strategy.applicable(goal, context) of each registered strategy
Applicable(strategy, goal, state) ==
    LET pref == Lower(goal.preference)
    IN  CASE strategy = "MediaKeyStrategy" ->
                 /\ goal.type = "CONTROL_MEDIA"
                 /\ Lower(goal.modifiers.action) \in MEDIA_ACTIONS
          [] strategy = "SpotifyStrategy" ->
                 /\ goal.type = "PLAY_MEDIA"
                 /\ \/ pref = "spotify"
                    \/ pref = "" /\ GetPreference(state, "music") = "spotify"
          [] strategy = "YouTubeStrategy" ->
                 /\ goal.type = "PLAY_MEDIA"
                 /\ \/ pref \in {"youtube", "yt"}
                    \/ Contains(goal.modifiers.type, "video")
          [] strategy = "NetflixStrategy" ->
                 goal.type = "PLAY_MEDIA" /\ pref = "netflix"
          [] strategy = "GmailStrategy" ->
                 /\ goal.type \in {"CHECK_EMAIL", "SEND_EMAIL"}
                 /\ \/ pref \in {"gmail", "google"}
                    \/ pref = "" /\ GetPreference(state, "email") = "gmail"
          [] strategy = "VolumeStrategy" ->
                 /\ goal.type = "SYSTEM_CONTROL"
                 /\ goal.modifiers.control \in {"volume", "sound", "audio"}
          [] strategy = "BrightnessStrategy" ->
                 /\ goal.type = "SYSTEM_CONTROL"
                 /\ goal.modifiers.control \in {"brightness", "screen"}
          [] strategy = "OpenAppStrategy" -> goal.type = "OPEN_APP"
          [] strategy = "CloseAppStrategy" -> goal.type = "CLOSE_APP"
          [] strategy = "WebSearchStrategy" -> goal.type = "WEB_SEARCH"
          [] strategy = "OpenWebsiteStrategy" -> goal.type = "OPEN_WEBSITE"
          [] OTHER -> FALSE

\* HumanActionPlan: its description and the types of its steps
HumanActionPlan(description, steps) == [description |-> description, steps |-> steps]

\* planner.plan returned None
NoPlan == [description |-> "-", steps |-> <<>>]

\* "open the browser and focus the address bar", the common prefix of the
\* browser strategies: hotkey, wait, type_text, wait, key, wait, hotkey, wait
OpenBrowser == <<"HOTKEY", "WAIT", "TYPE", "WAIT", "KEY", "WAIT", "HOTKEY", "WAIT">>

\* Strategy.plan(goal, context) of each registered strategy: the plan built
StrategyPlan(strategy, goal) ==
    CASE strategy = "MediaKeyStrategy" ->
             HumanActionPlan("Media control: " \o Lower(goal.modifiers.action), <<"KEY">>)
      [] strategy = "SpotifyStrategy" ->
             HumanActionPlan("Play '" \o goal.content \o "' on Spotify",
                 <<"HOTKEY", "WAIT", "TYPE", "WAIT", "KEY", "WAIT">>
                 \o (IF goal.content # ""
                     THEN <<"HOTKEY", "WAIT", "TYPE", "WAIT", "KEY", "WAIT", "KEY">>
                     ELSE <<>>))
      [] strategy = "YouTubeStrategy" ->
             HumanActionPlan("Play '" \o goal.content \o "' on YouTube",
                 OpenBrowser \o <<"TYPE", "KEY", "WAIT">>
                 \o (IF goal.content # "" THEN <<"KEY", "WAIT", "KEY">> ELSE <<>>))
      [] strategy = "NetflixStrategy" ->
             HumanActionPlan("Play '" \o goal.content \o "' on Netflix",
                 OpenBrowser \o <<"TYPE", "KEY">>)
      [] strategy = "GmailStrategy" ->
             HumanActionPlan("Open Gmail", OpenBrowser \o <<"TYPE", "KEY">>)
      [] strategy = "VolumeStrategy" ->
             HumanActionPlan("Volume control",
                 IF goal.modifiers.action = "mute" THEN <<"KEY">>
                 ELSE IF goal.modifiers.action \in {"up", "down"}
                 THEN <<"KEY", "KEY", "KEY", "KEY", "KEY">>
                 ELSE <<>>)
      [] strategy = "BrightnessStrategy" ->
             HumanActionPlan("Brightness control", <<>>)
      [] strategy = "OpenAppStrategy" ->
             HumanActionPlan(
                 "Open " \o (IF goal.content # "" THEN goal.content ELSE goal.preference),
                 <<"HOTKEY", "WAIT", "TYPE", "WAIT", "KEY">>)
      [] strategy = "CloseAppStrategy" ->
             HumanActionPlan("Close " \o goal.content, <<"HOTKEY">>)
      [] strategy = "WebSearchStrategy" ->
             HumanActionPlan("Search: " \o goal.content, OpenBrowser \o <<"TYPE", "KEY">>)
      [] strategy = "OpenWebsiteStrategy" ->
             HumanActionPlan(
                 "Open " \o (IF StartsWith(goal.content, "http") THEN goal.content
                             ELSE "https://" \o goal.content),
                 OpenBrowser \o <<"TYPE", "KEY">>)
      [] OTHER -> NoPlan

\* the context.update_preference call inside Strategy.plan: the state after
\* it (unchanged for the strategies that make no such call)
StrategyUpdate(strategy, state) ==
    CASE strategy = "SpotifyStrategy" -> UpdatePreference(state, "music", "spotify")
      [] strategy = "YouTubeStrategy" -> UpdatePreference(state, "video", "youtube")
      [] strategy = "GmailStrategy" -> UpdatePreference(state, "email", "gmail")
      [] OTHER -> state

\* whether Strategy.plan calls update_preference (and so save)
StrategySaves(strategy) ==
    strategy \in {"SpotifyStrategy", "YouTubeStrategy", "GmailStrategy"}

\* a planner that takes the last applicable strategy
PlannerPickMutant(goal, state) ==
    LET hits == {n \in 1..Len(STRATEGIES) : Applicable(STRATEGIES[n], goal, state)}
    IN  IF hits = {} THEN 0 ELSE CHOOSE n \in hits : \A m \in hits : m <= n

\* StrategyPlanner.plan, the loop: the index of the first strategy whose
\* applicable returns true, 0 when the loop ends without one
RECURSIVE PlannerScan(_, _, _)
PlannerScan(n, goal, state) ==
    IF n > Len(STRATEGIES) THEN 0
    ELSE IF Applicable(STRATEGIES[n], goal, state) THEN n
    ELSE PlannerScan(n + 1, goal, state)

PlannerPick(goal, state) == PlannerScan(1, goal, state)

\* no route call is in progress and none has returned
NoGoalRun ==
    [pc |-> "none", goal |-> Goal("UNKNOWN", "", "", "", "", "", ""),
     planned |-> <<>>, plan |-> NoPlan, has_plan |-> FALSE,
     before |-> [state |-> DefaultContextState, file |-> NoFile],
     response |-> "-", success |-> FALSE, n |-> 0]

(***************************************************************************)
(* Completion-service operations                                           *)
(***************************************************************************)
\* max_retries of the three retry loops
max_retries == 3

\* wait_time = 2 ** (attempt + 1), attempt counted from 0
WaitTime(attempt) == 2 ^ (attempt + 1)

\* what the completion service raises
ServiceErrors == {"429 Too Many Requests", "Quota exceeded", "connection reset"}

\* the rate-limit test of the three exception handlers
RateLimited(error_str) ==
    \/ Contains(error_str, "429")
    \/ Contains(error_str, "RESOURCE_EXHAUSTED")
    \/ Contains(Lower(error_str), "quota")

\* one entry of the trace of an operation: a service call (error "" when it
\* returned) or a time.sleep
CallEvent(error_str) == [kind |-> "call", error |-> error_str, secs |-> 0]
SleepEvent(secs) == [kind |-> "sleep", error |-> "", secs |-> secs]

\* _is_conversation: conversation_starters and action_exceptions
conversation_starters ==
    <<"what is", "what are", "what's", "who is", "who are", "why is", "why are",
      "how does", "how do", "can you explain", "tell me about", "explain",
      "describe", "teach me", "compare", "difference between", "versus", "vs">>

action_exceptions == <<"what time", "what date", "what's the weather", "what is the time">>

\* len(s.split()): the number of maximal runs of non-space characters
WordCount(s) ==
    Cardinality({i \in 1..Len(s) :
                    ~IsSpace(Char(s, i)) /\ (i = 1 \/ IsSpace(Char(s, i - 1)))})

\* IntentRouter._is_conversation
IsConversation(command) ==
    LET command_lower == Strip(Lower(command))
    IN  \/ \E k \in 1..Len(conversation_starters) :
               /\ StartsWith(command_lower, conversation_starters[k])
               /\ ~AnyIn(action_exceptions, command_lower)
        \/ EndsWith(command_lower, "?") /\ WordCount(command_lower) > 5

\* the commands handed to classify
ClassifyCommands ==
    {"what is rust", "WHAT IS RUST", "  Tell Me About cats ", "vscode",
     "what time is it", "What's the weather like", "what is the time in rome",
     "what time is it in new york right now?", "open notepad", "open it?",
     "is it going to rain in paris today?", "set volume to 50"}

\* what the completion service answers to the classification prompt: the
\* shape json.loads finds (an object, an object inside a ``` fence, valid
\* JSON that is no object, no JSON at all) and, for an object, its keys
\* ("" is a missing or null key)
ClassifyResponses ==
    {[shape |-> s, action |-> "TOOL", tool_name |-> t, params_ok |-> p] :
        s \in {"object", "fenced"}, t \in {"set_system_volume", "launch_rocket", ""},
        p \in BOOLEAN}
    \cup {[shape |-> "object", action |-> a, tool_name |-> t, params_ok |-> TRUE] :
            a \in {"CONVERSATION", "GENERATE_CODE", ""}, t \in {"", "launch_rocket"}}
    \cup {[shape |-> s, action |-> "", tool_name |-> "", params_ok |-> TRUE] :
            s \in {"array", "text"}}

NoResponse == [shape |-> "-", action |-> "", tool_name |-> "", params_ok |-> TRUE]

\* the RouteResult of a conversation, and the one that asks for code
\* generation
ConversationResult == RouteResult(95, "", TRUE, FALSE, TRUE)
CodeGenerationResult == RouteResult(0, "", FALSE, TRUE, TRUE)

\* _classify_with_llm from the response on, with the exception handler of
\* classify: text that is no JSON raises JSONDecodeError, JSON that is no
\* object raises AttributeError on result.get, both end in the
\* code-generation result
ParseResponse(resp) ==
    IF resp.shape \in {"text", "array"} THEN CodeGenerationResult
    ELSE LET action == IF resp.action = "" THEN "GENERATE_CODE" ELSE resp.action
         IN  IF action = "CONVERSATION" THEN ConversationResult
             ELSE IF action = "TOOL" /\ resp.tool_name # "" /\ resp.tool_name \in Tools
             THEN RouteResult(90, resp.tool_name, FALSE, FALSE, resp.params_ok)
             ELSE CodeGenerationResult

\* what the completion service answers to the goal-extraction prompt, as
\* extract_goal tells it apart: a goal can be built from it, or
\* GoalType(...) raises ValueError
GoalResponses == {"goal", "'FLY' is not a valid GoalType"}

\* confidences a caller may hand to RouteResult lie within MaxReported
\* hundredths outside [0.0, 1.0]
MaxReported == 60
Reported == (0 - MaxReported)..(100 + MaxReported)

\* the items a response to the batch prompt may list: objects naming a
\* goal type (FLY is no member of GoalType) and a value that is no object
MaxItems == 3
BatchItems == {"OPEN_APP", "PLAY_MEDIA", "FLY", "7"}
IsObject(item) == item # "7"

RECURSIVE ItemLists(_)
ItemLists(n) ==
    IF n = 0 THEN {<<>>}
    ELSE ItemLists(n - 1) \cup
         {Append(l, x) : l \in {m \in ItemLists(n - 1) : Len(m) = n - 1}, x \in BatchItems}

\* what the completion service answers to the batch prompt: a JSON array
\* of the items, an object whose key "goals" holds the array, or text
\* that is no JSON
BatchResponses ==
    [wrap : {"array", "goals"}, items : ItemLists(MaxItems)]
        \cup {[wrap |-> "text", items |-> <<>>]}

NoBatch == [wrap |-> "-", items |-> <<>>]

\* _parse_json_response followed by the test of lines 197-202: the text
\* between the first "{" and the last "}" is parsed, so an array that lists
\* an object is cut to what is no list (one object, or text that json.loads
\* rejects and the regular-expression fallback turns into one object); the
\* list of items is returned for an array without objects and for an
\* object with the key "goals"; anything else raises ValueError
GoalsList(resp) ==
    CASE resp.wrap = "goals" -> [is_list |-> TRUE, items |-> resp.items]
      [] resp.wrap = "array" /\ \A n \in 1..Len(resp.items) : ~IsObject(resp.items[n]) ->
             [is_list |-> TRUE, items |-> resp.items]
      [] OTHER -> [is_list |-> FALSE, items |-> <<>>]

\* the Goal built for one command: GoalType(...) raises for FLY and .get
\* raises for an item that is no object, both give UNKNOWN
BatchGoal(cmd, item) ==
    [type |-> IF IsObject(item) /\ item # "FLY" THEN item ELSE "UNKNOWN",
     raw_command |-> cmd]

\* "for i, (cmd, goal_data) in enumerate(zip(commands, goals_list))": zip
\* stops at the end of the shorter list
BuildGoals(commands, items) ==
    LET len == IF Len(commands) < Len(items) THEN Len(commands) ELSE Len(items)
    IN  [n \in 1..len |-> BatchGoal(commands[n], items[n])]

\* the fallback: UNKNOWN for every command
AllUnknown(commands) ==
    [n \in 1..Len(commands) |-> [type |-> "UNKNOWN", raw_command |-> commands[n]]]

\* no completion-service operation is in progress and none has returned
NoLlmRun ==
    [op |-> "none", pc |-> "none", command |-> "", client |-> FALSE, attempt |-> 0,
     events |-> <<>>, detected |-> FALSE, response |-> NoResponse,
     route |-> RouteResult(0, "", FALSE, FALSE, TRUE), ok |-> FALSE, reported |-> 0,
     n |-> 0, commands |-> <<>>, batch |-> NoBatch, goals |-> <<>>]

(***************************************************************************)
(* Two process calls on two threads                                        *)
(***************************************************************************)
Thread == {1, 2}

\* the frame of a process call: its position, its stripped command, the
\* email_data it read from the slot, the draft whose action it performed
\* (0 for none), whether it went on to ordinary routing, whether it raised
NoThread ==
    [pc |-> "none", command |-> "", email_data |-> 0, performed |-> 0,
     routed |-> FALSE, raised |-> FALSE]

(***************************************************************************)
(* State                                                                   *)
(***************************************************************************)
VARIABLES
    pending_confirmation,   \* AuraV2Bridge.pending_confirmation (NoPending is None)
    stats,                  \* AuraV2Bridge.stats
    conversation_history,   \* AuraV2Bridge.conversation_history (the roles)
    ai_client,              \* whether AuraV2Bridge._ai_client is loaded
    goal_router,            \* whether AuraV2Bridge._goal_router is set
    mail,                   \* the email actions performed by the last step
    drafts,                 \* number of drafts generated so far
    pc,                     \* position of the worker that runs process
    command,                \* the stripped command of the current call
    route_result,           \* what classify returned to process in this call
    tasks,                  \* the Task list of the current batch
    task_idx,               \* the task execute_tasks visits next (1-based)
    calls,                  \* collaborator invocations made by the last step
    result,                 \* what the call returned
    nrouted,                \* calls so far that reached the intent classifier
    nbatches,               \* calls so far that were run as a batch
    plan_executor,          \* the PlanExecutor singleton (its fields)
    plan_run,               \* the frame of the PlanExecutor.execute call
    context,                \* the ContextEngine singleton (its state)
    context_file,           \* ~/.aura/context.json
    goal_run,               \* the frame of the GoalRouter.route call
    llm_run,                \* the frame of a completion-service operation
    threads                 \* the frames of two process calls on two threads

vars == <<pending_confirmation, stats, conversation_history, ai_client, goal_router,
          mail, drafts, pc, command, route_result, tasks, task_idx,
          calls, result, nrouted, nbatches, plan_executor, plan_run,
          context, context_file, goal_run, llm_run, threads>>

\* the variables of the goal-driven path
goal_vars == <<context, context_file, goal_run>>

\* the commands a user sends
Commands ==
    {"", "  ", "set volume to 50", "draft email to bob and open notepad", ",and open notepad"}

\* what a user answers to the confirmation prompt
Replies == {"yes", " Send it ", "maybe", "cancel", "don't send", "book a room"}

NoRoute == RouteResult(0, "", FALSE, FALSE, TRUE)

\* the multi_task_handler module imports nothing that can be missing, so the
\* router always has its handler
MULTI_TASK_ENABLED == TRUE

\* the router object as the operators above take it
Self ==
    [pending |-> pending_confirmation, stats |-> stats, history |-> conversation_history,
     ai_client |-> ai_client, goal_router |-> goal_router, mail |-> <<>>,
     drafts |-> drafts, calls |-> <<>>]

\* the router object b becomes the state
Store(b) ==
    /\ pending_confirmation' = b.pending
    /\ stats' = b.stats
    /\ conversation_history' = b.history
    /\ ai_client' = b.ai_client
    /\ mail' = b.mail
    /\ drafts' = b.drafts
    /\ calls' = b.calls
    /\ UNCHANGED goal_router

\* process returns (or raises) with outcome o
Return(o) ==
    /\ Store(o.b)
    /\ result' = o.ret
    /\ pc' = "returned"

Init ==
    /\ pending_confirmation = NoPending
    /\ stats = ZeroStats
    /\ conversation_history = <<>>
    /\ ai_client = FALSE
    /\ goal_router \in BOOLEAN
    /\ mail = <<>>
    /\ drafts = 0
    /\ pc = "idle"
    /\ command = ""
    /\ route_result = NoRoute
    /\ tasks = <<>>
    /\ task_idx = 0
    /\ calls = <<>>
    /\ result = NoRet
    /\ nrouted = 0
    /\ nbatches = 0
    /\ plan_executor = NoExecutor
    /\ plan_run = NoRun
    /\ context = NoContext
    /\ context_file = NoFile
    /\ goal_run = NoGoalRun
    /\ llm_run = NoLlmRun
    /\ threads = [t \in Thread |-> NoThread]

\* the multi-task stage of process takes the command c over
MultiApplies(c) ==
    MULTI_TASK_ENABLED /\ IsMultiTask(Strip(c)) /\ Len(SplitTasks(Strip(c))) > 1

\* the empty test placed after the pending test
ProcessEmptyMutant(c) ==
    /\ pc = "idle"
    /\ Strip(c) = ""
    /\ command' = Strip(c)
    /\ IF Pending(pending_confirmation)
       THEN \E o \in HandleConfirmation(Self, Strip(c)) : Return(o)
       ELSE /\ result' = Ret("", FALSE, FALSE)
            /\ pc' = "returned"
            /\ calls' = <<>>
            /\ mail' = <<>>
            /\ UNCHANGED <<pending_confirmation, stats, conversation_history, ai_client,
                           goal_router, drafts>>
    /\ UNCHANGED <<route_result, tasks, task_idx, nrouted, nbatches>>
    /\ UNCHANGED <<plan_executor, plan_run, goal_vars, llm_run, threads>>

\* process with a command that is empty after strip()
ProcessEmpty(c) ==
    /\ pc = "idle"
    /\ Strip(c) = ""
    /\ command' = Strip(c)
    /\ result' = Ret("", FALSE, FALSE)
    /\ pc' = "returned"
    /\ calls' = <<>>
    /\ mail' = <<>>
    /\ UNCHANGED <<pending_confirmation, stats, conversation_history, ai_client, goal_router,
                   drafts, route_result, tasks, task_idx, nrouted, nbatches>>
    /\ UNCHANGED <<plan_executor, plan_run, goal_vars, llm_run, threads>>

\* process while a confirmation is pending: STEP 0
ProcessPending(c) ==
    /\ pc = "idle"
    /\ Strip(c) # ""
    /\ Pending(pending_confirmation)
    /\ command' = Strip(c)
    /\ \E o \in HandleConfirmation(Self, Strip(c)) : Return(o)
    /\ UNCHANGED <<route_result, tasks, task_idx, nrouted, nbatches>>
    /\ UNCHANGED <<plan_executor, plan_run, goal_vars, llm_run, threads>>

\* process of a command the multi-task stage does not take over
ProcessSingle(c, limit) ==
    /\ pc = "idle"
    /\ Strip(c) # ""
    /\ ~Pending(pending_confirmation)
    /\ ~MultiApplies(c)
    /\ nrouted < limit
    /\ nrouted' = nrouted + 1
    /\ command' = Strip(c)
    /\ LET b == IF MULTI_TASK_ENABLED /\ IsMultiTask(Strip(c))
                THEN Log(Self, "multi_task", "not applicable", FALSE)
                ELSE Self
       IN  \E rr \in RouteResults :
               /\ route_result' = rr
               /\ \E o \in ProcessRoute(b, rr) : Return(o)
    /\ UNCHANGED <<tasks, task_idx, nbatches>>
    /\ UNCHANGED <<plan_executor, plan_run, goal_vars, llm_run, threads>>

\* process hands a compound command to MultiTaskHandler.process, which splits it
ProcessMulti(c) ==
    /\ pc = "idle"
    /\ Strip(c) # ""
    /\ ~Pending(pending_confirmation)
    /\ MultiApplies(c)
    /\ nbatches < MaxBatches
    /\ nbatches' = nbatches + 1
    /\ command' = Strip(c)
    /\ tasks' = SplitTasks(Strip(c))
    /\ task_idx' = 1
    /\ calls' = <<Call("multi_task", "split", TRUE, "")>>
    /\ pc' = "multi"
    /\ mail' = <<>>
    /\ UNCHANGED <<pending_confirmation, stats, conversation_history, ai_client, goal_router,
                   drafts, route_result, result, nrouted>>
    /\ UNCHANGED <<plan_executor, plan_run, goal_vars, llm_run, threads>>

\* execute_tasks, one iteration: the task is skipped or run through the pipeline
ExecuteTask ==
    /\ pc = "multi" /\ task_idx <= Len(tasks)
    /\ LET task == tasks[task_idx]
       IN  IF ~DepsMet(tasks, task)
           THEN /\ tasks' = [tasks EXCEPT ![task_idx] =
                                [@ EXCEPT !.executed = TRUE, !.success = FALSE,
                                          !.result = "Skipped (dependency failed): " \o task.command]]
                /\ task_idx' = task_idx + 1
                /\ calls' = <<>>
                /\ mail' = <<>>
                /\ UNCHANGED <<pending_confirmation, stats, conversation_history, ai_client,
                               goal_router, drafts, pc>>
           ELSE \E rr \in ClassifyResults : \E o \in ExecuteSingleTask(Self, rr) :
                    /\ Store(o.b)
                    /\ IF o.ret.raised
                       THEN /\ pc' = "route"
                            /\ tasks' = <<>>
                            /\ task_idx' = 0
                       ELSE /\ pc' = pc
                            /\ tasks' = [tasks EXCEPT ![task_idx] =
                                            [@ EXCEPT !.executed = TRUE,
                                                      !.success = o.ret.success,
                                                      !.result = o.ret.response]]
                            /\ task_idx' = task_idx + 1
    /\ UNCHANGED <<command, route_result, result, nrouted, nbatches>>
    /\ UNCHANGED <<plan_executor, plan_run, goal_vars, llm_run, threads>>

\* MultiTaskHandler.process returns the batch result and process returns it
MultiReturn ==
    /\ pc = "multi" /\ task_idx > Len(tasks)
    /\ stats' = [stats EXCEPT !.multi_task = @ + 1]
    /\ result' = BatchResult(tasks)
    /\ pc' = "returned"
    /\ calls' = <<>>
    /\ mail' = <<>>
    /\ UNCHANGED <<pending_confirmation, conversation_history, ai_client, goal_router,
                   drafts, command, route_result, tasks, task_idx,
                   nrouted, nbatches>>
    /\ UNCHANGED <<plan_executor, plan_run, goal_vars, llm_run, threads>>

\* process after the multi-task handler raised: normal processing of the whole command
RouteAfterError ==
    /\ pc = "route"
    /\ \E rr \in RouteResults :
           /\ route_result' = rr
           /\ \E o \in ProcessRoute(Log(Self, "multi_task", "error", FALSE), rr) : Return(o)
    /\ UNCHANGED <<command, tasks, task_idx, nrouted, nbatches>>
    /\ UNCHANGED <<plan_executor, plan_run, goal_vars, llm_run, threads>>

\* the caller takes the result; the worker is ready for the next command
Deliver ==
    /\ pc = "returned"
    /\ pc' = "idle"
    /\ command' = ""
    /\ route_result' = NoRoute
    /\ tasks' = <<>>
    /\ task_idx' = 0
    /\ calls' = <<>>
    /\ mail' = <<>>
    /\ result' = NoRet
    /\ UNCHANGED <<pending_confirmation, stats, conversation_history, ai_client, goal_router,
                   drafts, nrouted, nbatches>>
    /\ UNCHANGED <<plan_executor, plan_run, goal_vars, llm_run, threads>>

Next ==
    \/ \E c \in Commands : ProcessEmpty(c)
    \/ \E c \in Commands \cup Replies : ProcessPending(c)
    \/ \E c \in Commands : ProcessSingle(c, MaxRouted)
    \/ \E c \in Commands : ProcessMulti(c)
    \/ ExecuteTask
    \/ MultiReturn
    \/ RouteAfterError
    \/ Deliver

Spec == Init /\ [][Next]_vars

\* the user sends single commands and replies only
NextSingle ==
    \/ \E c \in Commands : ProcessEmpty(c)
    \/ \E c \in Commands \cup Replies : ProcessPending(c)
    \/ \E c \in Commands : ProcessSingle(c, MaxSingle)
    \/ Deliver

SpecSingle == Init /\ [][NextSingle]_vars

\* the compound commands a user sends
BatchCommands ==
    {"open chrome and then search for weather",
     "open chrome, play music, search cats",
     "open notepad then close notepad and also type hello",
     "play music, and then pause",
     "open a, start b, find c",
     "mute and play next song",
     "mute then pause then stop"}

\* the user sends one compound command; its tasks are run one by one
NextBatch ==
    \/ \E c \in BatchCommands : ProcessMulti(c)
    \/ ExecuteTask
    \/ MultiReturn
    \/ RouteAfterError
    \/ Deliver

SpecBatch == Init /\ [][NextBatch]_vars

(***************************************************************************)
(* PlanExecutor: one thread replays a plan, another may call interrupt     *)
(***************************************************************************)
\* the variables of the router, which the plan executor does not touch
router_vars ==
    <<pending_confirmation, stats, conversation_history, ai_client, goal_router,
      mail, drafts, pc, command, route_result, tasks, task_idx, calls, result,
      nrouted, nbatches>>

\* the call r of execute has begun and the check that precedes the last
\* step of its plan has not been made yet
BeforeLastCheck(r) ==
    /\ Len(r.steps) >= 1
    /\ \/ r.pc = "entered"
       \/ r.pc = "check" /\ r.i <= Len(r.steps)
       \/ r.pc = "step" /\ r.i < Len(r.steps)

InterruptRequestedMutant(pe) == FALSE

\* "if self.interrupt_flag" of the pre-step check
InterruptRequested(pe) == pe.interrupt_flag

\* get_plan_executor builds the singleton; _load_control may fail to
\* import advanced_control
GetPlanExecutor ==
    /\ ~plan_executor.built
    /\ \E loaded \in BOOLEAN :
           plan_executor' = [built |-> TRUE, advanced_control |-> loaded,
                             interrupt_flag |-> FALSE]
    /\ UNCHANGED <<plan_run, router_vars, goal_vars, llm_run, threads>>

\* execute(plan) is called; no other execute call is in progress
ExecuteCall(plan) ==
    /\ plan_executor.built
    /\ plan_run.pc \in {"none", "done"}
    /\ plan_run' = [pc |-> "entered", steps |-> plan, i |-> 0, executed |-> <<>>,
                    ret |-> FALSE, interrupted |-> FALSE, late |-> FALSE,
                    requested |-> FALSE]
    /\ UNCHANGED <<plan_executor, router_vars, goal_vars, llm_run, threads>>

\* execute, up to the loop: without advanced_control it returns False,
\* otherwise it clears the interrupt flag
ExecuteEnter ==
    /\ plan_run.pc = "entered"
    /\ IF ~plan_executor.advanced_control
       THEN /\ plan_run' = [plan_run EXCEPT !.pc = "done", !.ret = FALSE]
            /\ UNCHANGED plan_executor
       ELSE /\ plan_executor' = [plan_executor EXCEPT !.interrupt_flag = FALSE]
            /\ plan_run' = [plan_run EXCEPT !.pc = "check", !.i = 1]
    /\ UNCHANGED <<router_vars, goal_vars, llm_run, threads>>

\* execute, the head of one loop iteration: the loop ends and True is
\* returned, or the flag is found set and False is returned, or the step
\* is about to be executed
ExecuteCheck ==
    /\ plan_run.pc = "check"
    /\ plan_run' =
           IF plan_run.i > Len(plan_run.steps)
           THEN [plan_run EXCEPT !.pc = "done", !.ret = TRUE]
           ELSE IF InterruptRequested(plan_executor)
           THEN [plan_run EXCEPT !.pc = "done", !.ret = FALSE]
           ELSE [plan_run EXCEPT !.pc = "step", !.late = plan_run.interrupted]
    /\ UNCHANGED <<plan_executor, router_vars, goal_vars, llm_run, threads>>

\* a replay that gives up at the first failed step
ExecuteStepMutant ==
    /\ plan_run.pc = "step"
    /\ LET ok == ExecuteStepOk(plan_run.steps[plan_run.i])
       IN  plan_run' =
               [plan_run EXCEPT
                   !.executed = Append(@, [index |-> plan_run.i, ok |-> ok,
                                           late |-> plan_run.late]),
                   !.i = @ + 1,
                   !.pc = IF ok THEN "check" ELSE "done",
                   !.ret = FALSE]
    /\ UNCHANGED <<plan_executor, router_vars, goal_vars, llm_run, threads>>

\* execute, the rest of the iteration: _execute_step runs the step; its
\* failure is logged and the loop goes on
ExecuteStep ==
    /\ plan_run.pc = "step"
    /\ plan_run' =
           [plan_run EXCEPT
               !.executed = Append(@, [index |-> plan_run.i,
                                       ok |-> ExecuteStepOk(plan_run.steps[plan_run.i]),
                                       late |-> plan_run.late]),
               !.i = @ + 1,
               !.pc = "check"]
    /\ UNCHANGED <<plan_executor, router_vars, goal_vars, llm_run, threads>>

\* interrupt(), called from another thread at any moment; interrupted
\* remembers that it came while the loop of the current call was running,
\* requested that it came after execute was called and before the check
\* that precedes the last step of the plan
Interrupt ==
    /\ plan_executor.built
    /\ plan_executor' = [plan_executor EXCEPT !.interrupt_flag = TRUE]
    /\ plan_run' = [plan_run EXCEPT
                       !.interrupted = @ \/ plan_run.pc \in {"check", "step"},
                       !.requested = @ \/ BeforeLastCheck(plan_run)]
    /\ UNCHANGED <<router_vars, goal_vars, llm_run, threads>>

NextPlan ==
    \/ GetPlanExecutor
    \/ \E plan \in Plans : ExecuteCall(plan)
    \/ ExecuteEnter
    \/ ExecuteCheck
    \/ ExecuteStep
    \/ Interrupt

SpecPlan == Init /\ [][NextPlan]_vars

(***************************************************************************)
(* GoalRouter.route: goal, plan, replay                                    *)
(***************************************************************************)
\* route calls handled
MaxGoalRoutes == 1

\* get_context_engine builds the singleton from the context file
GetContextEngine ==
    /\ ~context.built
    /\ context' = [built |-> TRUE, state |-> LoadContext(context_file)]
    /\ UNCHANGED <<context_file, goal_run, plan_executor, plan_run, router_vars, llm_run, threads>>

\* an earlier session has left a context file
ContextFileFound(data) ==
    /\ ~context.built
    /\ ~context_file.exists
    /\ context_file' = [exists |-> TRUE, data |-> data, extra |-> FALSE, missing |-> {}]
    /\ UNCHANGED <<context, goal_run, plan_executor, plan_run, router_vars, llm_run, threads>>

\* "if not plan": a HumanActionPlan is an object without __bool__ or
\* __len__, so only None is falsy
PlanIsFalsy(has_plan, plan) == ~has_plan

\* route, steps 1: the goal extract_goal returned is dispatched on its type
RouteCall(goal) ==
    /\ context.built
    /\ plan_executor.built
    /\ goal_run.pc \in {"none", "returned"}
    /\ goal_run.n < MaxGoalRoutes
    /\ plan_run.pc \in {"none", "done"}
    /\ LET run == [NoGoalRun EXCEPT !.goal = goal, !.n = goal_run.n + 1,
                       !.before = [state |-> context.state, file |-> context_file]]
       IN  IF goal.type = "CONVERSATION"
           THEN \E ok \in BOOLEAN :
                    goal_run' = [run EXCEPT !.pc = "returned", !.success = ok,
                                     !.response = IF ok THEN "chat reply"
                                                  ELSE "I'm not sure how to respond to that."]
           ELSE IF goal.type = "UNKNOWN"
           THEN goal_run' = [run EXCEPT !.pc = "returned",
                                 !.response = "NEEDS_CODE_GENERATION"]
           ELSE goal_run' = [run EXCEPT !.pc = "plan"]
    /\ UNCHANGED <<context, context_file, plan_executor, plan_run, router_vars, llm_run, threads>>

\* route, step 2 and the call of step 3: planner.plan(goal) runs the plan
\* method of the strategy picked, which may update and save the context;
\* without a plan the fallback signal is returned, with one
\* executor.execute(plan) is called
RoutePlan ==
    /\ goal_run.pc = "plan"
    /\ LET n        == PlannerPick(goal_run.goal, context.state)
           has_plan == n # 0
           strategy == IF has_plan THEN STRATEGIES[n] ELSE "-"
           plan     == IF has_plan THEN StrategyPlan(strategy, goal_run.goal) ELSE NoPlan
           state    == IF has_plan THEN StrategyUpdate(strategy, context.state)
                       ELSE context.state
       IN  /\ context' = [context EXCEPT !.state = state]
           /\ IF has_plan /\ StrategySaves(strategy)
              THEN context_file' \in Save(state, context_file)
              ELSE UNCHANGED context_file
           /\ IF PlanIsFalsy(has_plan, plan)
              THEN /\ goal_run' = [goal_run EXCEPT !.pc = "returned",
                                       !.response = "NEEDS_FUNCTION_EXECUTOR"]
                   /\ UNCHANGED plan_run
              ELSE /\ goal_run' = [goal_run EXCEPT !.pc = "executing", !.has_plan = TRUE,
                                       !.plan = plan, !.planned = <<strategy>>]
                   /\ plan_run' = [NoRun EXCEPT !.pc = "entered", !.steps = plan.steps]
    /\ UNCHANGED <<plan_executor, router_vars, llm_run, threads>>

\* route, the end of step 3: execute has returned
RouteReturn ==
    /\ goal_run.pc = "executing"
    /\ plan_run.pc = "done"
    /\ goal_run' = [goal_run EXCEPT
                        !.pc = "returned", !.success = plan_run.ret,
                        !.response = (IF plan_run.ret THEN "Done: " ELSE "Attempted: ")
                                     \o goal_run.plan.description]
    /\ UNCHANGED <<context, context_file, plan_executor, plan_run, router_vars, llm_run, threads>>

NextGoal ==
    \/ GetPlanExecutor
    \/ GetContextEngine
    \/ \E data \in ContextFiles : ContextFileFound(data)
    \/ \E goal \in Goals : RouteCall(goal)
    \/ RoutePlan
    \/ ExecuteEnter
    \/ ExecuteCheck
    \/ ExecuteStep
    \/ Interrupt
    \/ RouteReturn

SpecGoal == Init /\ [][NextGoal]_vars

(***************************************************************************)
(* Completion-service operations: classify, extract_goal, conversation     *)
(***************************************************************************)
\* operations started
MaxOperations == 1

\* a new operation may start
LlmIdle == llm_run.pc \in {"none", "done"} /\ llm_run.n < MaxOperations

LlmUnchanged == UNCHANGED <<router_vars, plan_executor, plan_run, goal_vars, threads>>

\* the frame of a new operation
LlmFrame(op, cmd, client) ==
    [NoLlmRun EXCEPT !.op = op, !.command = cmd, !.client = client,
                     !.n = llm_run.n + 1]

\* a classify that asks the completion service without consulting the
\* conversation detector
ClassifyCallMutant(cmd, client) ==
    /\ LlmIdle
    /\ LET run == [LlmFrame("classify", Strip(cmd), client) EXCEPT
                       !.detected = IsConversation(Strip(cmd))]
       IN  llm_run' = IF ~client
                      THEN [run EXCEPT !.pc = "done", !.route = CodeGenerationResult]
                      ELSE [run EXCEPT !.pc = "loop"]
    /\ LlmUnchanged

\* IntentRouter.classify up to the call of _classify_with_llm: a positive
\* detector returns at once, a missing client gives the code-generation
\* result
ClassifyCall(cmd, client) ==
    /\ LlmIdle
    /\ LET run == [LlmFrame("classify", Strip(cmd), client) EXCEPT
                       !.detected = IsConversation(Strip(cmd))]
       IN  llm_run' = IF run.detected
                      THEN [run EXCEPT !.pc = "done", !.route = ConversationResult]
                      ELSE IF ~client
                      THEN [run EXCEPT !.pc = "done", !.route = CodeGenerationResult]
                      ELSE [run EXCEPT !.pc = "loop"]
    /\ LlmUnchanged

\* GoalRouter.extract_goal and AuraV2Bridge._handle_conversation up to
\* their retry loop: without a client they return at once
LoopCall(op, client) ==
    /\ LlmIdle
    /\ llm_run' = [LlmFrame(op, "play jazz", client) EXCEPT
                       !.pc = IF client THEN "loop" ELSE "done"]
    /\ LlmUnchanged

\* the exception handler shared by the three loops: a rate-limit error
\* before the last attempt sleeps and goes on
Backoff(run, error_str) ==
    RateLimited(error_str) /\ run.attempt < max_retries - 1

\* one iteration of the retry loop of _classify_with_llm: the call returns
\* and the response is parsed, or it raises
ClassifyAttempt ==
    /\ llm_run.op = "classify" /\ llm_run.pc = "loop"
    /\ \/ \E resp \in ClassifyResponses :
              llm_run' = [llm_run EXCEPT
                              !.events = Append(@, CallEvent("")),
                              !.response = resp, !.route = ParseResponse(resp),
                              !.ok = TRUE, !.pc = "done"]
       \/ \E e \in ServiceErrors :
              LET called == [llm_run EXCEPT !.events = Append(@, CallEvent(e))]
              IN  llm_run' =
                      IF Backoff(llm_run, e)
                      THEN [called EXCEPT
                                !.events = Append(@, SleepEvent(WaitTime(llm_run.attempt))),
                                !.attempt = @ + 1]
                      ELSE IF llm_run.attempt = max_retries - 1
                      THEN [called EXCEPT !.pc = "done", !.route = CodeGenerationResult]
                      ELSE [called EXCEPT !.attempt = @ + 1]
    /\ LlmUnchanged

\* one iteration of the retry loop of extract_goal or _handle_conversation:
\* the call returns and the operation returns its result, or an exception
\* (of the call or, in extract_goal, of building the Goal) is handled; the
\* loop ends after max_retries iterations
LoopAttempt ==
    /\ llm_run.op \in {"extract_goal", "conversation"} /\ llm_run.pc = "loop"
    /\ \/ llm_run' = [llm_run EXCEPT !.events = Append(@, CallEvent("")),
                                     !.ok = TRUE, !.pc = "done"]
       \/ \E e \in ServiceErrors \cup
                   (IF llm_run.op = "extract_goal" THEN GoalResponses \ {"goal"} ELSE {}) :
              LET called ==
                      [llm_run EXCEPT
                           !.events = Append(@, CallEvent(IF e \in ServiceErrors
                                                          THEN e ELSE ""))]
                  next == [called EXCEPT
                               !.attempt = @ + 1,
                               !.pc = IF llm_run.attempt + 1 = max_retries
                                      THEN "done" ELSE "loop"]
              IN  llm_run' =
                      IF Backoff(llm_run, e)
                      THEN [next EXCEPT
                                !.events = Append(@, SleepEvent(WaitTime(llm_run.attempt)))]
                      ELSE next
    /\ LlmUnchanged

\* a caller builds a RouteResult with the confidence c
Construct(c) ==
    /\ LlmIdle
    /\ llm_run' = [LlmFrame("construct", "", FALSE) EXCEPT
                       !.pc = "done", !.reported = c,
                       !.route = RouteResult(c, "", FALSE, FALSE, TRUE)]
    /\ LlmUnchanged

NextLlm ==
    \/ \E cmd \in ClassifyCommands, client \in BOOLEAN : ClassifyCall(cmd, client)
    \/ \E op \in {"extract_goal", "conversation"}, client \in BOOLEAN : LoopCall(op, client)
    \/ ClassifyAttempt
    \/ LoopAttempt
    \/ \E c \in Reported : Construct(c)

SpecLlm == Init /\ [][NextLlm]_vars

(***************************************************************************)
(* Conversation memory: _handle_conversation called again and again        *)
(***************************************************************************)
MaxChats == 11

\* "if len(self.conversation_history) > self.max_history": the last
\* max_history entries are kept
KeepRecent(h) ==
    IF Len(h) > max_history THEN SubSeq(h, Len(h) - max_history + 1, Len(h)) ELSE h

ChatUnchanged ==
    UNCHANGED <<pending_confirmation, stats, goal_router, mail, drafts, pc, command,
                route_result, tasks, task_idx, calls, result, nrouted, nbatches,
                plan_executor, plan_run, goal_vars, threads>>

\* _handle_conversation(message) is called; the client is loaded on first
\* use and the load may fail, in which case the call returns at once
ChatCall ==
    /\ llm_run.pc \in {"none", "done"}
    /\ llm_run.n < MaxChats
    /\ \E b \in AiClient(Self) :
           /\ ai_client' = b.ai_client
           /\ llm_run' = [LlmFrame("conversation", "how are you", b.ai_client) EXCEPT
                              !.pc = IF b.ai_client THEN "loop" ELSE "done"]
    /\ UNCHANGED conversation_history
    /\ ChatUnchanged

\* one iteration of the retry loop: the user message is appended in the
\* first iteration only, the history is cut to max_history entries, then
\* the service is called; its reply is appended and the call returns, or
\* the exception is handled and the loop goes on until max_retries
ChatAttempt ==
    /\ llm_run.op = "conversation" /\ llm_run.pc = "loop"
    /\ LET h == KeepRecent(IF llm_run.attempt = 0
                           THEN Append(conversation_history, "user")
                           ELSE conversation_history)
       IN  \/ /\ conversation_history' = Append(h, "assistant")
              /\ llm_run' = [llm_run EXCEPT !.ok = TRUE, !.pc = "done"]
           \/ /\ conversation_history' = h
              /\ \E e \in ServiceErrors :
                     llm_run' = [llm_run EXCEPT
                                     !.attempt = @ + 1,
                                     !.pc = IF llm_run.attempt + 1 = max_retries
                                            THEN "done" ELSE "loop"]
    /\ UNCHANGED ai_client
    /\ ChatUnchanged

NextChat ==
    \/ ChatCall
    \/ ChatAttempt

SpecChat == Init /\ [][NextChat]_vars

(***************************************************************************)
(* ContextEngine: sessions that load, change and save the context file     *)
(***************************************************************************)
MaxCommands == 23
MaxUpdates == 2

\* the fields a context file of another version of the program may lack
MissingKeys == {"preferred_music_app", "last_video_app"}

ContextUnchanged == UNCHANGED <<goal_run, plan_executor, plan_run, router_vars, llm_run, threads>>

\* ContextEngine.update_preference: the fields are set and the state saved
SetPreference(category, app_name) ==
    /\ context.built
    /\ context.state.last_updated < MaxUpdates
    /\ LET state == UpdatePreference(context.state, category, app_name)
       IN  /\ context' = [context EXCEPT !.state = state]
           /\ context_file' \in Save(state, context_file)
    /\ ContextUnchanged

\* ContextState.update_last_used
UpdateLastUsed(app_type, app_name) ==
    /\ context.built
    /\ context.state.last_updated < MaxUpdates
    /\ LET state == CASE app_type = "media" ->
                              [context.state EXCEPT !.last_media_app = app_name]
                       [] app_type = "video" ->
                              [context.state EXCEPT !.last_video_app = app_name]
                       [] app_type = "email" ->
                              [context.state EXCEPT !.last_email_source = app_name]
                       [] OTHER -> context.state
       IN  context' = [context EXCEPT !.state = [state EXCEPT !.last_updated = @ + 1]]
    /\ UNCHANGED context_file
    /\ ContextUnchanged

\* state.add_recent_command(command); commands are told apart by their
\* number, the command after the list's last one is added
RecentCommand ==
    /\ context.built
    /\ LET r == context.state.recent_commands
           n == IF r = <<>> THEN 1 ELSE r[Len(r)] + 1
       IN  /\ n <= MaxCommands
           /\ context' = [context EXCEPT !.state = AddRecentCommand(@, n)]
    /\ UNCHANGED context_file
    /\ ContextUnchanged

\* ContextEngine.save
SaveContext ==
    /\ context.built
    /\ context_file' \in Save(context.state, context_file)
    /\ UNCHANGED context
    /\ ContextUnchanged

\* between two sessions the file is rewritten with a key that is no field
\* of ContextState, or without one of the fields
ForeignWrite(extra, missing) ==
    /\ ~context.built
    /\ context_file.exists
    /\ context_file' = [context_file EXCEPT !.extra = extra, !.missing = missing]
    /\ UNCHANGED context
    /\ ContextUnchanged

\* the process ends; the next one builds its engine from the file
Exit ==
    /\ context.built
    /\ context' = NoContext
    /\ UNCHANGED context_file
    /\ ContextUnchanged

NextContext ==
    \/ GetContextEngine
    \/ SetPreference("music", "youtube_music")
    \/ UpdateLastUsed("video", "vlc")
    \/ RecentCommand
    \/ SaveContext
    \/ \E extra \in BOOLEAN, missing \in {{}} \cup {{k} : k \in MissingKeys} :
           ForeignWrite(extra, missing)
    \/ Exit

SpecContext == Init /\ [][NextContext]_vars

(***************************************************************************)
(* GoalRouter.extract_goals_batch                                          *)
(***************************************************************************)
\* the command lists handed to extract_goals_batch
BatchInputs == {<<>>, <<"open chrome">>, <<"open chrome", "play jazz">>}

\* extract_goals_batch up to its retry loop: an empty list returns [],
\* without a client every command gets UNKNOWN
BatchCall(commands, client) ==
    /\ LlmIdle
    /\ LET run == [LlmFrame("extract_goals_batch", "", client) EXCEPT !.commands = commands]
       IN  llm_run' = IF commands = <<>>
                      THEN [run EXCEPT !.pc = "done"]
                      ELSE IF ~client
                      THEN [run EXCEPT !.pc = "done", !.goals = AllUnknown(commands)]
                      ELSE [run EXCEPT !.pc = "loop"]
    /\ LlmUnchanged

\* one iteration of the retry loop: the goals are built from the list of
\* the response and returned, or the exception (of the call, or the
\* ValueError for a response without a list) is handled; after
\* max_retries iterations the fallback is returned
BatchAttempt ==
    /\ llm_run.op = "extract_goals_batch" /\ llm_run.pc = "loop"
    /\ LET failed(e) ==
               LET called == [llm_run EXCEPT
                                  !.events = Append(@, CallEvent(e)),
                                  !.attempt = @ + 1]
                   next == IF llm_run.attempt + 1 = max_retries
                           THEN [called EXCEPT !.pc = "done",
                                               !.goals = AllUnknown(llm_run.commands)]
                           ELSE called
               IN  IF Backoff(llm_run, e)
                   THEN [next EXCEPT
                             !.events = Append(@, SleepEvent(WaitTime(llm_run.attempt)))]
                   ELSE next
       IN  \/ \E resp \in BatchResponses :
                  LET l == GoalsList(resp)
                  IN  llm_run' =
                          IF l.is_list
                          THEN [llm_run EXCEPT
                                    !.events = Append(@, CallEvent("")),
                                    !.batch = resp, !.ok = TRUE, !.pc = "done",
                                    !.goals = BuildGoals(llm_run.commands, l.items)]
                          ELSE [failed("") EXCEPT !.batch = resp]
           \/ \E e \in ServiceErrors : llm_run' = failed(e)
    /\ LlmUnchanged

NextBatchGoals ==
    \/ \E commands \in BatchInputs, client \in BOOLEAN : BatchCall(commands, client)
    \/ BatchAttempt

SpecBatchGoals == Init /\ [][NextBatchGoals]_vars

(***************************************************************************)
(* AuraV2Bridge.process called from two threads while a draft is staged    *)
(***************************************************************************)
MaxStaged == 1

\* what the two callers say
RaceReplies == {"yes", "send it", "cancel"}

ThreadUnchanged ==
    UNCHANGED <<stats, conversation_history, ai_client, goal_router, mail, pc, command,
                route_result, tasks, task_idx, calls, result, nrouted, nbatches,
                plan_executor, plan_run, goal_vars, llm_run>>

\* an earlier process call with a draft command has returned: the
\* interception staged the draft, or the preparation failed
StageDraft ==
    /\ \A t \in Thread : threads[t].pc \in {"none", "done"}
    /\ ~Pending(pending_confirmation)
    /\ drafts < MaxStaged
    /\ \E o \in InterceptEmailDraft(Self, RouteResult(90, "draft_email", FALSE, FALSE, TRUE)) :
           /\ pending_confirmation' = o.b.pending
           /\ drafts' = o.b.drafts
    /\ UNCHANGED threads
    /\ ThreadUnchanged

\* thread t calls process(reply); the command is stripped
ProcessEnter(t, reply) ==
    /\ threads[t].pc = "none"
    /\ Strip(reply) # ""
    /\ threads' = [threads EXCEPT ![t] = [@ EXCEPT !.pc = "entered",
                                                   !.command = Strip(reply)]]
    /\ UNCHANGED <<pending_confirmation, drafts>>
    /\ ThreadUnchanged

\* "if self.pending_confirmation" of process: the call goes to
\* _handle_confirmation or on to the routing of an ordinary command
CheckPending(t) ==
    /\ threads[t].pc = "entered"
    /\ threads' = [threads EXCEPT ![t] =
                       IF Pending(pending_confirmation)
                       THEN [@ EXCEPT !.pc = "confirm"]
                       ELSE [@ EXCEPT !.pc = "done", !.routed = TRUE]]
    /\ UNCHANGED <<pending_confirmation, drafts>>
    /\ ThreadUnchanged

\* _handle_confirmation up to the first operand of the test of the slot:
\* a negative reply clears the slot, an unclear one asks again, an
\* affirmative one reads the slot and returns None when it is empty
ConfirmTest(t) ==
    /\ threads[t].pc = "confirm"
    /\ LET cmd_lower == Lower(threads[t].command)
       IN  IF IsAffirmative(cmd_lower)
           THEN /\ threads' = [threads EXCEPT ![t].pc =
                                   IF Pending(pending_confirmation) THEN "type" ELSE "done"]
                /\ UNCHANGED pending_confirmation
           ELSE /\ threads' = [threads EXCEPT ![t].pc = "done"]
                /\ pending_confirmation' = IF IsNegative(cmd_lower) THEN NoPending
                                           ELSE pending_confirmation
    /\ UNCHANGED drafts
    /\ ThreadUnchanged

\* 'self.pending_confirmation["type"] == "email"': the slot is read again,
\* outside the try block; None["type"] raises TypeError
TypeTest(t) ==
    /\ threads[t].pc = "type"
    /\ threads' = [threads EXCEPT ![t] =
                       IF ~Pending(pending_confirmation)
                       THEN [@ EXCEPT !.pc = "done", !.raised = TRUE]
                       ELSE IF pending_confirmation.type = "email"
                       THEN [@ EXCEPT !.pc = "data"]
                       ELSE [@ EXCEPT !.pc = "done"]]
    /\ UNCHANGED <<pending_confirmation, drafts>>
    /\ ThreadUnchanged

\* 'email_data = self.pending_confirmation["data"]' inside the try block:
\* on an empty slot the TypeError is handled by clearing the slot
ReadData(t) ==
    /\ threads[t].pc = "data"
    /\ threads' = [threads EXCEPT ![t] =
                       IF Pending(pending_confirmation)
                       THEN [@ EXCEPT !.pc = "action",
                                      !.email_data = pending_confirmation.data]
                       ELSE [@ EXCEPT !.pc = "clear"]]
    /\ UNCHANGED <<pending_confirmation, drafts>>
    /\ ThreadUnchanged

\* execute_email_action(email_data, action) performs the action of the
\* draft, or an exception is raised before anything was performed
EmailAction(t) ==
    /\ threads[t].pc = "action"
    /\ \E done \in BOOLEAN :
           threads' = [threads EXCEPT ![t] =
                           [@ EXCEPT !.pc = "clear",
                                     !.performed = IF done THEN threads[t].email_data ELSE 0]]
    /\ UNCHANGED <<pending_confirmation, drafts>>
    /\ ThreadUnchanged

\* "self.pending_confirmation = None" and the return
ClearSlot(t) ==
    /\ threads[t].pc = "clear"
    /\ pending_confirmation' = NoPending
    /\ threads' = [threads EXCEPT ![t].pc = "done"]
    /\ UNCHANGED drafts
    /\ ThreadUnchanged

NextRace ==
    \/ StageDraft
    \/ \E t \in Thread, reply \in RaceReplies : ProcessEnter(t, reply)
    \/ \E t \in Thread : CheckPending(t)
    \/ \E t \in Thread : ConfirmTest(t)
    \/ \E t \in Thread : TypeTest(t)
    \/ \E t \in Thread : ReadData(t)
    \/ \E t \in Thread : EmailAction(t)
    \/ \E t \in Thread : ClearSlot(t)

SpecRace == Init /\ [][NextRace]_vars

(***************************************************************************)
(* Properties                                                              *)
(***************************************************************************)
\* the operations invoked by the step that led to the current state
CallOps == {calls[i].op : i \in 1..Len(calls)}

\* the call that just returned was answered by the confirmation handler
ByConfirmation == pc = "returned" /\ calls # <<>> /\ calls[1].op = "confirm"

\* the call that just returned was classified by the router itself and
\* not taken as conversation
Routed == pc = "returned" /\ route_result # NoRoute /\ ~route_result.is_conversation

\* C1: a non-empty command that arrives while the pending slot is non-empty
\* is answered within that call by the confirmation handler alone: nothing
\* but the handler and the email action it performs is invoked (no
\* multi-task handler, classifier, executor, goal router, code generation).
C1_PendingHandledByConfirmation ==
    [][(pc = "idle" /\ pending_confirmation # NoPending /\ pc' # "idle" /\ command' # "")
          => /\ pc' = "returned"
             /\ calls' # <<>>
             /\ \A i \in 1..Len(calls') : calls'[i].op \in {"confirm", "email_action"}]_vars

\* a compound command was given while a draft was pending and was answered
\* by the confirmation handler
C1_Witness ==
    /\ ByConfirmation
    /\ IsMultiTask(command)
    /\ CallOps \subseteq {"confirm", "email_action"}

\* C2: whenever the classifier names draft_email, on the single-command
\* route and on the sub-commands of a compound command, the capability is
\* never handed to the function executor: the draft is only prepared and
\* staged in the pending slot.
C2_DraftNeverExecutedDirectly ==
    (route_result \in ClassifyResults \cup {NoRoute})
        => \A i \in 1..Len(calls) :
               ~(calls[i].op = "execute" /\ calls[i].arg = "draft_email")

\* C3: the confirmation handler performs the pending action only when the
\* lower-cased reply is a member of the affirmative list.
C3_OnlyListedReplyExecutes ==
    (ByConfirmation /\ "email_action" \in CallOps)
        => MemberOf(affirmative, Lower(command))

\* C4: while a confirmation is pending, a reply that matches the negative
\* list clears the slot, is answered with the cancellation acknowledgement
\* and performs no email action, whatever else the reply contains.
C4_NegativeReplyCancels ==
    (ByConfirmation /\ AnyIn(negative, Lower(command)))
        => /\ pending_confirmation = NoPending
           /\ result = Ret("Cancelled. Draft discarded.", TRUE, FALSE)
           /\ mail = <<>>

\* C5: while a draft is pending, a reply in which neither word list matches
\* leaves the slot and its payload unchanged, performs nothing and returns
\* the re-prompt with success = false, however often it is repeated; the
\* reply "cancel" then clears the slot and performs nothing either.
C5_UnrecognisedReplyKeepsDraft ==
    [][(pc = "idle" /\ pending_confirmation # NoPending /\ pc' = "returned" /\ command' # "")
          => /\ (~AnyIn(affirmative, Lower(command')) /\ ~AnyIn(negative, Lower(command')))
                    => /\ pending_confirmation' = pending_confirmation
                       /\ mail' = <<>>
                       /\ result' = Ret("Please say 'Send' to confirm or 'Cancel' to discard.",
                                        FALSE, FALSE)
             /\ (command' = "cancel")
                    => /\ pending_confirmation' = NoPending
                       /\ mail' = <<>>
                       /\ result' = Ret("Cancelled. Draft discarded.", TRUE, FALSE)]_vars

\* "maybe" was answered with the re-prompt and the draft is still pending
C5_Witness ==
    /\ ByConfirmation
    /\ command = "maybe"
    /\ pending_confirmation.type = "email"
    /\ ~result.success

\* C6: after an affirmative reply the pending slot is empty when the call
\* returns, whether the action succeeded, failed or raised an error.
C6_AffirmativeAlwaysClears ==
    (ByConfirmation /\ AnyIn(affirmative, Lower(command)))
        => pending_confirmation = NoPending

\* an affirmative reply whose action raised an error has returned
C6_Witness ==
    /\ ByConfirmation
    /\ AnyIn(affirmative, Lower(command))
    /\ result = Ret("Error executing action", FALSE, FALSE)
    /\ pending_confirmation = NoPending

\* C7: the pending slot is written with a confirmation only while it is
\* empty, so a staged confirmation is never overwritten by another.
C7_SlotWrittenOnlyWhileEmpty ==
    [][(pending_confirmation' # pending_confirmation /\ pending_confirmation' # NoPending)
          => pending_confirmation = NoPending]_vars

\* a second draft is staged after the first one was resolved
C7_Witness == pending_confirmation = [type |-> "email", data |-> 2]

\* C8: a classification with is_conversation = true is answered by the
\* conversation path even if it also names a function and asks for code
\* generation: no executor, goal router or code generation is invoked.
C8_ConversationFlagFirst ==
    (pc = "returned" /\ route_result.is_conversation)
        => CallOps \subseteq {"multi_task", "classify", "conversation"}

\* such a classification was answered by the conversation handler
C8_Witness ==
    /\ pc = "returned"
    /\ route_result.is_conversation
    /\ route_result.function # ""
    /\ route_result.needs_code_generation
    /\ "conversation" \in CallOps

\* the tier invocations of the step, in the order they were made
Tiers ==
    SelectSeq(calls, LAMBDA c : c.op \in {"generate_draft", "execute", "goal_router", "codegen"})

\* 1 high-confidence match, 2 goal router, 3 lower-confidence match,
\* 4 code generation
Rank(c) ==
    CASE c.op = "generate_draft" -> 1
      [] c.op = "execute" /\ c.site = "high" -> 1
      [] c.op = "goal_router" -> 2
      [] c.op = "execute" -> 3
      [] OTHER -> 4

\* C9: a classification that is not conversation is tried against the
\* tiers in the order high-confidence match (function, confidence >= 0.70),
\* goal router, lower-confidence match (function, confidence >= 0.50), code
\* generation; a tier is attempted only after every earlier attempted tier
\* failed, and nothing is attempted after a tier that succeeded.
C9_TierOrder ==
    Routed =>
        /\ \A i \in 1..(Len(Tiers) - 1) :
               Rank(Tiers[i]) < Rank(Tiers[i + 1]) /\ ~Tiers[i].ok
        /\ \A i \in 1..Len(Tiers) :
               /\ Rank(Tiers[i]) = 1
                      => route_result.function # "" /\ route_result.confidence >= 70
               /\ Rank(Tiers[i]) = 3
                      => route_result.function # "" /\ route_result.confidence >= 50
        /\ (route_result.function \notin {"", "draft_email"} /\ route_result.confidence >= 70)
               => Tiers # <<>> /\ Rank(Tiers[1]) = 1

\* all four tiers were attempted by one call
C9_Witness ==
    /\ Routed
    /\ Len(Tiers) = 4
    /\ Rank(Tiers[1]) = 1 /\ Rank(Tiers[4]) = 4

\* C10: when the goal router does not succeed, the response
\* "NEEDS_CODE_GENERATION" leads straight to code generation without the
\* lower-confidence tier, and the response "NEEDS_FUNCTION_EXECUTOR" leads
\* to the lower-confidence tier first and to code generation after it.
C10_GoalSignals ==
    Routed =>
        \A i \in 1..Len(calls) :
            (calls[i].op = "goal_router" /\ ~calls[i].ok) =>
                /\ calls[i].arg = "NEEDS_CODE_GENERATION"
                       => \A j \in (i + 1)..Len(calls) : calls[j].op = "codegen"
                /\ (/\ calls[i].arg = "NEEDS_FUNCTION_EXECUTOR"
                    /\ route_result.function # ""
                    /\ route_result.confidence >= 50)
                       => /\ i < Len(calls)
                          /\ calls[i + 1].op = "execute"
                          /\ calls[i + 1].site = "low"
                          /\ (~calls[i + 1].ok /\ ~result.raised /\ ai_client)
                                 => /\ i + 1 < Len(calls)
                                    /\ calls[i + 2].op = "codegen"

\* the goal router asked for code generation for a command whose function
\* match would have qualified for the lower-confidence tier, and code
\* generation ran next
C10_Witness ==
    /\ Routed
    /\ route_result.function # "" /\ route_result.confidence >= 50
    /\ \E i \in 1..(Len(calls) - 1) :
           /\ calls[i].op = "goal_router"
           /\ calls[i].arg = "NEEDS_CODE_GENERATION"
           /\ calls[i + 1].op = "codegen"

\* C11: every call of process ends by returning a (response, success,
\* used_llm) triple and never by an exception that leaves process, whatever
\* the classifier returned and whichever collaborator failed.
C11_ProcessNeverRaises == pc = "returned" => ~result.raised

\* C12: process with a command that is empty after strip() returns
\* ("", false, false), invokes no collaborator and leaves the pending slot,
\* the statistics and the conversation history as they were, also while a
\* confirmation is pending.
C12_EmptyCommandFrame ==
    [][(pc = "idle" /\ pc' # "idle" /\ command' = "")
          => /\ pc' = "returned"
             /\ result' = [response |-> "", success |-> FALSE, used_gemini |-> FALSE,
                           raised |-> FALSE]
             /\ calls' = <<>>
             /\ mail' = <<>>
             /\ pending_confirmation' = pending_confirmation
             /\ stats' = stats
             /\ conversation_history' = conversation_history
             /\ drafts' = drafts]_vars

\* an empty command was answered while a draft was pending
C12_Witness ==
    /\ pc = "returned"
    /\ command = ""
    /\ result.response = ""
    /\ pending_confirmation.type = "email"

\* the batch of a compound command has returned its combined result
BatchReturned == pc = "returned" /\ tasks # <<>>

\* the task was not run: its result is the skip notice
Skipped(t) == t.result = "Skipped (dependency failed): " \o t.command

\* task d (1-based) lists task f among its dependencies
DependsDirectly(ts, d, f) ==
    \E n \in 1..Len(ts[d].depends_on) : ts[d].depends_on[n] + 1 = f

\* task d depends on task f through a chain of at most k dependencies
RECURSIVE DependsWithin(_, _, _, _)
DependsWithin(ts, d, f, k) ==
    /\ k > 0
    /\ \/ DependsDirectly(ts, d, f)
       \/ \E m \in 1..Len(ts) : DependsDirectly(ts, d, m) /\ DependsWithin(ts, m, f, k - 1)

\* C13: the tasks of a batch are visited strictly in index order; the
\* visited task is run through the pipeline only if every task it depends
\* on has been run and succeeded, otherwise it is not run, gets
\* success = false and the skip notice as result, and the batch fails.
C13_DependencyGate ==
    /\ [](pc = "multi" => \A n \in 1..Len(tasks) : tasks[n].executed <=> n < task_idx)
    /\ [](BatchReturned =>
              ((\E n \in 1..Len(tasks) : Skipped(tasks[n])) => ~result.success))
    /\ [][(pc = "multi" /\ task_idx' = task_idx + 1) =>
             LET t == tasks[task_idx]
                 met == \A n \in 1..Len(t.depends_on) :
                            /\ tasks[t.depends_on[n] + 1].executed
                            /\ tasks[t.depends_on[n] + 1].success
             IN  /\ \A n \in 1..Len(tasks) : n # task_idx => tasks'[n] = tasks[n]
                 /\ tasks'[task_idx].executed
                 /\ met => calls' # <<>> /\ calls'[1].op = "classify"
                 /\ ~met => /\ calls' = <<>>
                            /\ ~tasks'[task_idx].success
                            /\ Skipped(tasks'[task_idx])]_vars

\* "open chrome" failed and "search for weather" is a skip notice
C13_Witness ==
    /\ BatchReturned
    /\ command = "open chrome and then search for weather"
    /\ tasks[1].executed /\ ~tasks[1].success /\ ~Skipped(tasks[1])
    /\ Skipped(tasks[2])
    /\ ~result.success

C15_BatchResultCombines ==
    BatchReturned =>
        /\ result.success <=> \A n \in 1..Len(tasks) : tasks[n].success
        /\ \A n \in 1..Len(tasks) : Contains(result.response, tasks[n].result)
        /\ \A n \in 1..(Len(tasks) - 1) :
               Contains(result.response, tasks[n].result \o "\n" \o tasks[n + 1].result)

\* a batch of three tasks returned with a failed, a successful and a
\* skipped task
C15_Witness ==
    /\ BatchReturned
    /\ Len(tasks) = 3
    /\ ~tasks[1].success /\ tasks[2].success /\ Skipped(tasks[3])
    /\ ~result.success

\* the text contains one of the words
HasWord(words, text) == \E w \in words : Contains(Lower(text), w)

\* C16: the dependencies split_tasks stores are exactly these: the
\* immediate predecessor of every task after the first when the command
\* contains a sequential keyword, and for a task containing search, type,
\* click or find the nearest preceding task containing open, launch or
\* start; each is listed once and nothing else is listed.  Stated of the
\* task list as split_tasks returned it.
C16_DependencyInference ==
    (pc = "multi" /\ task_idx = 1) =>
        \A n \in 1..Len(tasks) :
            LET listed == {tasks[n].depends_on[k] : k \in 1..Len(tasks[n].depends_on)}
                sequential ==
                    HasWord({"then", "after that", "next", "afterwards", "following that"},
                            command)
                opener(m) == HasWord({"open", "launch", "start"}, tasks[m].command)
                nearest == {m \in 1..(n - 1) :
                                opener(m) /\ \A k \in (m + 1)..(n - 1) : ~opener(k)}
                expected ==
                    (IF sequential /\ n > 1 THEN {n - 2} ELSE {})
                    \cup (IF HasWord({"search", "type", "click", "find"}, tasks[n].command)
                          THEN {m - 1 : m \in nearest} ELSE {})
            IN  listed = expected /\ Len(tasks[n].depends_on) = Cardinality(expected)

\* both rules gave the third task a dependency: its predecessor and the
\* opener before it
C16_Witness ==
    /\ pc = "multi"
    /\ Len(tasks) = 3
    /\ tasks[3].depends_on = <<1, 0>>
    /\ tasks[2].depends_on = <<0>>

\* C17: "open notepad then close notepad and also type hello" is split into
\* three tasks, "close notepad" depends on "open notepad", and "type hello",
\* joined by "also", does not depend on "close notepad".
C17_AlsoGivesNoDependency ==
    (tasks # <<>> /\ command = "open notepad then close notepad and also type hello")
        => /\ Len(tasks) = 3
           /\ DependsDirectly(tasks, 2, 1)
           /\ ~DependsDirectly(tasks, 3, 2)

\* C18: every sub-command of a split compound command is non-empty,
\* trimmed and free of separator residue: it does not start with a
\* leftover "then", "and" or "also" and does not end with the comma of its
\* separator.
C18_NoSeparatorResidue ==
    \A n \in 1..Len(tasks) :
        LET sub == tasks[n].command
        IN  /\ sub # ""
            /\ ~StartsWith(sub, " ") /\ ~EndsWith(sub, " ")
            /\ ~StartsWith(Lower(sub), "then ")
            /\ ~StartsWith(Lower(sub), "and ")
            /\ ~StartsWith(Lower(sub), "also ")
            /\ ~EndsWith(sub, ",")

\* C19: the router classifies the whole command itself only in a step
\* that starts the call, with the multi-task stage either not consulted
\* or reporting "not applicable"; and after a step in which a sub-command
\* of a compound command was handed to the function executor, the command
\* is not classified again as a single command.
C19_NoRerouteAfterSubCommand ==
    [][(\E i \in 1..Len(calls') : calls'[i].op = "classify" /\ calls'[i].arg = "")
          => /\ pc = "idle"
             /\ \A i \in 1..Len(calls') :
                    calls'[i].op = "multi_task" => calls'[i].arg = "not applicable"
             /\ ~(\E i \in 1..Len(calls) :
                      calls[i].op = "execute" /\ calls[i].site \in {"task_high", "task_low"})]_vars

\* C20: while execute replays a plan, once interrupt() has set the flag no
\* step whose pre-step check comes after that moment is executed: the next
\* check ends the call with false, and the steps not yet executed stay
\* unexecuted.
C20_InterruptStopsReplay ==
    /\ [](\A n \in 1..Len(plan_run.executed) : ~plan_run.executed[n].late)
    /\ [][(/\ plan_run.pc = "check"
           /\ plan_run.interrupted
           /\ plan_run.i <= Len(plan_run.steps)
           /\ plan_run'.pc # "check")
              => /\ plan_run'.pc = "done"
                 /\ plan_run'.ret = FALSE
                 /\ plan_run'.executed = plan_run.executed]_vars
    /\ [][(plan_run.pc = "done" /\ plan_run'.pc = "done")
              => plan_run'.executed = plan_run.executed]_vars

\* a plan of three steps was interrupted after its first step had begun:
\* the call returned false with steps left unexecuted
C20_Witness ==
    /\ plan_run.pc = "done"
    /\ plan_run.interrupted
    /\ ~plan_run.ret
    /\ Len(plan_run.steps) = 3
    /\ Len(plan_run.executed) \in {1, 2}

AppFields(state) ==
    <<state.preferred_music_app, state.preferred_video_app,
      state.preferred_streaming_app, state.preferred_email_app,
      state.last_media_app, state.last_video_app, state.last_email_source,
      state.last_browser>>

\* route has gone through its planning step
Planned == goal_run.pc \in {"executing", "returned"} /\ goal_run.n > 0

\* C22: when route has produced a plan and its execution did not succeed
\* (execute returned False: interrupted, or no input primitives), the
\* preferred_* and last_* application fields of the context store are, in
\* memory and as the context file yields them, what they were before
\* planning
C22_PreferencesOnlyAfterSuccess ==
    (goal_run.pc = "returned" /\ goal_run.has_plan /\ ~goal_run.success)
        => /\ AppFields(context.state) = AppFields(goal_run.before.state)
           /\ AppFields(LoadContext(context_file))
                  = AppFields(LoadContext(goal_run.before.file))

\* C23: StrategyPlanner.plan calls the plan method of exactly one strategy,
\* the first in registration order whose applicable(goal, context) is true,
\* and returns its plan; when no strategy is applicable it calls none and
\* returns None (route then returns the fallback signal)
C23_FirstApplicableStrategy ==
    (Planned /\ goal_run.goal.type \notin {"CONVERSATION", "UNKNOWN"})
        => LET hits == {n \in 1..Len(STRATEGIES) :
                           Applicable(STRATEGIES[n], goal_run.goal, goal_run.before.state)}
           IN  IF hits = {}
               THEN /\ ~goal_run.has_plan
                    /\ goal_run.planned = <<>>
                    /\ goal_run.response = "NEEDS_FUNCTION_EXECUTOR"
               ELSE \E n \in hits :
                        /\ \A m \in hits : n <= m
                        /\ goal_run.has_plan
                        /\ goal_run.planned = <<STRATEGIES[n]>>
                        /\ goal_run.plan = StrategyPlan(STRATEGIES[n], goal_run.goal)

\* a goal for which two strategies are applicable (Spotify as the preferred
\* music app, YouTube for video content) has been planned by the first
C23_Witness ==
    /\ Planned
    /\ goal_run.goal = Goal("PLAY_MEDIA", "jazz", "", "", "", "video", "")
    /\ Applicable("SpotifyStrategy", goal_run.goal, goal_run.before.state)
    /\ Applicable("YouTubeStrategy", goal_run.goal, goal_run.before.state)
    /\ goal_run.planned = <<"SpotifyStrategy">>

\* the services that have a media strategy
MediaServices == <<"spotify", "youtube", "netflix">>

\* C24: a PLAY_MEDIA goal that names no service is planned by the strategy
\* of the context store's preferred music app, whichever media service
\* that is: there is a plan, its description names that service and names
\* no other media service
C24_PreferredServicePlanned ==
    (/\ Planned
     /\ goal_run.goal.type = "PLAY_MEDIA"
     /\ goal_run.goal.preference = ""
     /\ MemberOf(MediaServices, goal_run.before.state.preferred_music_app))
        => /\ goal_run.has_plan
           /\ \A k \in 1..Len(MediaServices) :
                  Contains(Lower(goal_run.plan.description), MediaServices[k])
                      <=> MediaServices[k] = goal_run.before.state.preferred_music_app

\* C25: a route call whose strategy produced a plan without steps does not
\* report success
C25_EmptyPlanNotDone ==
    (goal_run.pc = "returned" /\ goal_run.has_plan /\ goal_run.plan.steps = <<>>)
        => ~goal_run.success

\* C26: an operation calls the completion service at most max_retries
\* times; every call after the first directly follows a sleep of 2 s
\* (before the second call) or 4 s (before the third), which directly
\* follows a call that failed with a rate-limit error; so after a call that
\* failed otherwise there is no further call
C26_RetryOnlyAfterRateLimit ==
    LET ev    == llm_run.events
        made == {k \in 1..Len(ev) : ev[k].kind = "call"}
    IN  /\ Cardinality(made) <= max_retries
        /\ \A k \in made :
               k > 1 => /\ k >= 3
                        /\ ev[k - 1].kind = "sleep"
                        /\ ev[k - 1].secs = IF Cardinality({j \in made : j < k}) = 1
                                            THEN 2 ELSE 4
                        /\ ev[k - 2].kind = "call"
                        /\ RateLimited(ev[k - 2].error)

\* C27: classify returns needs_code_generation with confidence 0 and no
\* function when a service call raised (an error other than a rate limit,
\* or any error in the last attempt), when the response is no JSON object,
\* and when a TOOL response names no tool of the catalog; the function of
\* a returned RouteResult, if any, is a name of the catalog
C27_UnknownToolOrFailureGivesCodeGeneration ==
    (llm_run.op = "classify" /\ llm_run.pc = "done")
        => LET ev   == llm_run.events
               resp == llm_run.response
           IN  /\ llm_run.route.function # "" => llm_run.route.function \in Tools
               /\ (\/ \E k \in 1..Len(ev) :
                          /\ ev[k].kind = "call" /\ ev[k].error # ""
                          /\ ~RateLimited(ev[k].error) \/ k = Len(ev)
                   \/ llm_run.ok /\ resp.shape \in {"text", "array"}
                   \/ llm_run.ok /\ resp.action = "TOOL" /\ resp.tool_name \notin Tools)
                      => /\ llm_run.route.needs_code_generation
                         /\ llm_run.route.confidence = 0
                         /\ llm_run.route.function = ""
                         /\ ~llm_run.route.is_conversation

\* C28: a classify call whose conversation detector is positive has
\* returned is_conversation with confidence 0.95 and no function, and has
\* made no call to the completion service
C28_DetectedConversationMakesNoCall ==
    (llm_run.op = "classify" /\ llm_run.detected)
        => /\ llm_run.pc = "done"
           /\ llm_run.route.is_conversation
           /\ llm_run.route.confidence = 95
           /\ llm_run.route.function = ""
           /\ ~llm_run.route.needs_code_generation
           /\ llm_run.events = <<>>

\* classify has returned for a conversational command although a client
\* for the completion service was at hand
C28_Witness ==
    /\ llm_run.op = "classify" /\ llm_run.pc = "done" /\ llm_run.detected
    /\ llm_run.client
    /\ llm_run.command = "WHAT IS RUST"
    /\ llm_run.route.is_conversation /\ llm_run.events = <<>>

\* C29: the conversation detector is false for every command containing an
\* action-exception substring, and true for every command that begins
\* with a conversational opener (in any casing) and contains none
C29_DetectorRespectsExceptions ==
    llm_run.op = "classify"
        => LET c == Lower(llm_run.command)
           IN  /\ AnyIn(action_exceptions, c) => ~llm_run.detected
               /\ (/\ \E k \in 1..Len(conversation_starters) :
                          StartsWith(c, conversation_starters[k])
                   /\ ~AnyIn(action_exceptions, c))
                      => llm_run.detected

\* C30: the confidence of a RouteResult lies in [0.0, 1.0] once it is
\* constructed: a reported value above 1 is stored as 1.0, one below 0 as
\* 0.0, one in the range as it is
C30_ConfidenceClamped ==
    /\ llm_run.route.confidence \in 0..100
    /\ llm_run.op = "construct"
           => /\ llm_run.reported > 100 => llm_run.route.confidence = 100
              /\ llm_run.reported < 0 => llm_run.route.confidence = 0
              /\ llm_run.reported \in 0..100
                     => llm_run.route.confidence = llm_run.reported

\* RouteResults built from a value above 1 and from a value below 0
C30_Witness ==
    /\ llm_run.op = "construct"
    /\ llm_run.reported = 0 - 25
    /\ llm_run.route.confidence = 0


\* C34: every index in the depends_on list of a task of a split batch is
\* the index of a task of that batch and is strictly smaller than the
\* task's own index, so the dependencies are acyclic and, when a task is
\* reached, each task it depends on has already been visited.
C34_DependenciesPointBack ==
    \A n \in 1..Len(tasks) :
        /\ tasks[n].index = n - 1
        /\ \A k \in 1..Len(tasks[n].depends_on) :
               /\ tasks[n].depends_on[k] \in 0..(Len(tasks) - 1)
               /\ tasks[n].depends_on[k] < tasks[n].index
               /\ (pc = "multi" /\ task_idx = n) =>
                      tasks[tasks[n].depends_on[k] + 1].executed

\* the third task of "open notepad then close notepad and also type hello"
\* is reached with its two dependencies, the tasks 1 and 0, visited
C34_Witness ==
    /\ pc = "multi" /\ task_idx = 3 /\ Len(tasks) = 3
    /\ tasks[3].depends_on = <<1, 0>>
    /\ tasks[1].executed /\ tasks[2].executed


\* C35: within one call of process, and within one sub-command of a batch,
\* the function executor is invoked at most once: a capability whose
\* execution at the high-confidence site failed is not executed a second
\* time by the low-confidence site.
C35_ExecutorAtMostOnce ==
    Cardinality({n \in 1..Len(calls) : calls[n].op = "execute"}) <= 1


\* the task's result is the one the code-generation fallback returns after
\* calling the service
CodeGenerated(t) == t.executed /\ t.result \in {"generated result", "failure"}

\* C38: the used_llm flag a compound command returns is true exactly when
\* at least one of its sub-commands was handled by the code-generation
\* fallback: true for a batch with a successfully code-generated
\* sub-command, false when every executed sub-command was handled locally,
\* batches with skipped or locally failed tasks included.
C38_UsedLlmMeansCodeGeneration ==
    BatchReturned =>
        (result.used_gemini <=> \E n \in 1..Len(tasks) : CodeGenerated(tasks[n]))


\* the step's trace holds a draft preparation that did not succeed
DraftFailed == \E n \in 1..Len(calls) : calls[n].op = "generate_draft" /\ ~calls[n].ok

C36_InterruptNeverLost ==
    (plan_run.pc = "done" /\ plan_run.requested) =>
        /\ ~plan_run.ret
        /\ Len(plan_run.executed) < Len(plan_run.steps)


\* a call of _handle_conversation has returned
ChatReturned == llm_run.op = "conversation" /\ llm_run.pc = "done"

\* s is what is left of t after dropping entries from its front
IsSuffix(s, t) ==
    Len(s) <= Len(t) /\ s = SubSeq(t, Len(t) - Len(s) + 1, Len(t))

\* C37: whenever a conversation call has returned the history holds at
\* most max_history entries, and a call appends the user message exactly
\* once, in its first attempt, however many attempts it makes: an attempt
\* leaves the old history, the user message if it is the first attempt and
\* the reply if there is one, less entries dropped from the front.
C37_HistoryBounded ==
    /\ [](ChatReturned => Len(conversation_history) <= max_history)
    /\ [][(llm_run.op = "conversation" /\ llm_run.pc = "loop") =>
              \E reply \in {<<>>, <<"assistant">>} :
                  LET grown == IF llm_run.attempt = 0
                               THEN Append(conversation_history, "user") \o reply
                               ELSE conversation_history \o reply
                  IN  /\ IsSuffix(conversation_history', grown)
                      /\ Len(conversation_history') >= Len(grown) - Len(conversation_history)
                      /\ (reply = <<>>) = (llm_run'.pc = "loop" \/ ~llm_run'.ok)]_vars


\* the engine is built from an existing context file in this step
LoadsFile == ~context.built /\ context'.built /\ context_file.exists

\* C31: loading a context file gives the state that was saved: every
\* preferred_* and last_* field (and every other field) has the value the
\* file holds; a key of the file that is no field of the state is ignored
\* and the saved fields are kept; a field whose key is missing from the
\* file gets its default value and the other fields are kept.
C31_LoadKeepsSavedFields ==
    [][LoadsFile =>
           \A f \in DOMAIN DefaultContextState :
               context'.state[f] = IF f \in context_file.missing
                                   THEN DefaultContextState[f]
                                   ELSE context_file.data[f]]_vars

\* C32: the list of recent commands never holds more than 20 entries, and
\* it holds the most recently added commands in the order they were
\* added: adding a command leaves the old list followed by the command,
\* less entries dropped from the front once there are more than 20.
C32_RecentCommandsBounded ==
    /\ [](Len(context.state.recent_commands) <= 20)
    /\ [][context'.state.recent_commands # context.state.recent_commands /\ context.built
              /\ context'.built =>
              LET old == context.state.recent_commands
                  new == context'.state.recent_commands
              IN  /\ IsSuffix(new, Append(old, new[Len(new)]))
                  /\ Len(new) = IF Len(old) < 20 THEN Len(old) + 1 ELSE 20]_vars

\* 23 commands were added: the list holds the commands 4 to 23
C32_Witness ==
    /\ context.built
    /\ Len(context.state.recent_commands) = 20
    /\ context.state.recent_commands[1] = 4
    /\ context.state.recent_commands[20] = 23


\* C33: extract_goals_batch returns exactly one Goal per command, in the
\* order of the commands and with raw_command equal to the command,
\* whatever the service answers; when the response lists the goals, an
\* item that is missing or cannot be turned into a Goal gives UNKNOWN for
\* its command and the other commands get the goal of their item.
C33_OneGoalPerCommand ==
    (llm_run.op = "extract_goals_batch" /\ llm_run.pc = "done") =>
        /\ Len(llm_run.goals) = Len(llm_run.commands)
        /\ \A n \in 1..Len(llm_run.goals) :
               /\ llm_run.goals[n].raw_command = llm_run.commands[n]
               /\ (llm_run.ok /\ llm_run.batch.wrap = "goals") =>
                      llm_run.goals[n].type =
                          IF n <= Len(llm_run.batch.items)
                             /\ llm_run.batch.items[n] \in {"OPEN_APP", "PLAY_MEDIA"}
                          THEN llm_run.batch.items[n] ELSE "UNKNOWN"


\* C40: a staged draft is executed at most once: of two process calls with
\* affirmative replies that run concurrently while the draft is pending, at
\* most one performs the action of the draft; and a call that arrives after
\* another call has performed the latest draft and returned goes on to the
\* routing of an ordinary command.
C40_DraftExecutedAtMostOnce ==
    /\ [](~(threads[1].performed # 0 /\ threads[1].performed = threads[2].performed))
    /\ [][\A t \in Thread :
              (/\ threads[t].pc = "entered" /\ threads'[t].pc # "entered"
               /\ threads[3 - t].pc = "done"
               /\ threads[3 - t].performed = drafts /\ drafts > 0)
                  => threads'[t].routed /\ threads'[t].pc = "done"]_vars

=============================================================================
